---- MODULE Spec2Model ----
(***************************************************************************)
(* Banking ledger service: accounts, cards, deposits, withdrawals, card    *)
(* payments and inter-account transfers (app/routes/*.py, app/models.py).  *)
(*                                                                         *)
(* Each request handler runs in its own SQLAlchemy session.  A handler is  *)
(* split at its store suspension points: the first statement, every        *)
(* SELECT ... FOR UPDATE (with_for_update) and the commit.  Rows flushed   *)
(* by a session stay private to it until db.commit(); db.rollback()        *)
(* discards them.  The store honours the row lock that with_for_update()   *)
(* asks for (read-committed, a locker waits until the holder commits or    *)
(* rolls back, and an UPDATE of a locked row waits as well); a wait is     *)
(* bounded by the connection timeout of app/database.py.                   *)
(***************************************************************************)
EXTENDS Integers, Sequences, FiniteSets, TLC

\* ---------------------------------------------------------------- bounds
MaxAmount == 1        \* request amounts range over 0..MaxAmount
MaxTxns == 3          \* transaction rows, committed or in flight

\* ------------------------------------------------------------- population
Procs == {"r1", "r2"}                  \* concurrent request handlers
Users == {"u1", "u2"}                  \* authenticated principals
AccountIds == {1, 2, 3}                \* rows of table accounts
RequestAccountIds == {1, 2, 4}          \* ids requests name; 4 has no row
CardIds == {1}                         \* rows of table cards
RequestCardIds == CardIds \cup {2}     \* 2: an id with no row
Amounts == 0..MaxAmount

NoProc == "none"
NoRef == << >>                       \* NULL reference

\* accounts, transactions, transfers, cards: the committed tables (models.py).
\* lock: the session holding each account row's FOR UPDATE lock.
\* pc, req: where each request handler stands, and its request.
\* mem: balances its session read under lock, the transfer id it drew, and
\*      the status it is about to write.
\* pend: rows its session has flushed and not yet committed.
\* users: table users.
\* res: the response the step just taken returned.
VARIABLES accounts, transactions, transfers, cards, users, lock, pc, req, mem, pend, res

vars == <<accounts, transactions, transfers, cards, users, lock, pc, req, mem, pend, res>>

\* ------------------------------------------------------------- data model
AccountStatus == {"ACTIVE", "FROZEN", "CLOSED"}
TransactionDirection == {"DEBIT", "CREDIT"}
TransactionCategory == {"TRANSFER", "CARD_PAYMENT", "DEPOSIT", "WITHDRAWAL"}
CardStatus == {"ACTIVE", "FROZEN", "CANCELLED"}

\* Account(user_id, status, balance, overdraft_limit); balance and
\* overdraft_limit default to 0, status to ACTIVE.
Account(user) ==
    [user_id |-> user, status |-> "ACTIVE", balance |-> 0, overdraft_limit |-> 0]

\* Transaction row.  reference is None or the transfer reference; card_id is
\* 0 when the row has no card.
Transaction(id, account, type, amount, category, reference, transfer, card) ==
    [id |-> id, account_id |-> account, type |-> type, amount |-> amount,
     category |-> category, reference |-> reference,
     transfer_id |-> transfer, card_id |-> card]

\* Transfer row.
Transfer(id, src, dst, amount, debitId, creditId) ==
    [id |-> id, source_account_id |-> src, destination_account_id |-> dst,
     amount |-> amount, source_transaction_id |-> debitId,
     destination_transaction_id |-> creditId]

\* NULL in a column.
NULL == << >>

\* Card row: owning account, status, whether expiry_date < now, the
\* spending limit (0 stands for NULL), and the columns card_number and cvv.
Card(account, status, expired, limit, number, cvv) ==
    [account_id |-> account, status |-> status, expired |-> expired,
     spending_limit |-> limit, card_number |-> number, cvv |-> cvv]

\* generate_cvv(card_number, expiry_date): a deterministic function of the
\* card's number and expiry under the secret key.
generate_cvv(number) == <<"cvv", number>>

\* User row: id and the unique email.
User(id, email) == [id |-> id, email |-> email]

\* The users of the initial state, each signed up with an email of their own.
InitUsers == {User("u1", "u1@example.com"), User("u2", "u2@example.com")}

\* ---------------------------------------------------------------- helpers
\* HTTPException(status_code, detail)
HTTPException(code, detail) == [status_code |-> code, detail |-> detail]

Response(code) == [status_code |-> code, detail |-> "ok"]

NoResponse == [status_code |-> 0, detail |-> "none"]

\* res[p] is the response the step just taken returned to the caller of p.
NoResponses == [p \in Procs |-> NoResponse]

NoRequest ==
    [op |-> "none", user |-> "u1", account_id |-> 0, destination_account_id |-> 0,
     card_id |-> 0, amount |-> 0, spending_limit |-> 0, email |-> "none"]

NoMem == [source |-> 0, destination |-> 0, transfer_id |-> NoRef, status |-> "none",
          card_number |-> 0]

\* uuid.uuid4(): an identifier no live row carries.  Identifiers are opaque,
\* so among the unused ones the model takes the one named by the content of
\* the row and a serial number: tables that hold the same rows are then the
\* same state, whatever the order of the inserts.
uuid4(content, used) ==
    LET k == CHOOSE i \in 1..(Cardinality(used) + 1) :
                 /\ <<content, i>> \notin used
                 /\ \A j \in 1..(i - 1) : <<content, j>> \in used
    IN  <<content, k>>

TransactionIdsInUse ==
    {t.id : t \in transactions} \cup UNION {{t.id : t \in pend[p]} : p \in Procs}

TransferIdsInUse ==
    {t.id : t \in transfers} \cup {mem[p].transfer_id : p \in Procs}

\* Transaction(...) followed by db.add and db.flush, which draws the row's id.
NewTransaction(account, type, amount, category, reference, transfer, card) ==
    Transaction(uuid4(<<account, type, amount, category, transfer, card>>,
                      TransactionIdsInUse),
                account, type, amount, category, reference, transfer, card)

\* transfer_ref = f"TRF-{str(transfer_id)[:8]}"
TransferRef(id) == <<"TRF", id>>

\* Rows a request adds to table transactions.
RowsNeeded(op) ==
    CASE op = "transfer" -> 2
      [] op \in {"deposit", "withdrawal", "card_payment"} -> 1
      [] OTHER -> 0

RECURSIVE RowsReserved(_)
RowsReserved(S) ==
    IF S = {} THEN 0
    ELSE LET p == CHOOSE x \in S : TRUE
         IN  (IF pend[p] # {} THEN RowsNeeded(req[p].op) ELSE 0)
             + RowsReserved(S \ {p})

\* The table has room for the rows of one more request of kind op.
HasRoom(op) ==
    Cardinality(transactions) + RowsReserved(Procs) + RowsNeeded(op) <= MaxTxns

\* ------------------------------------------------------------- row locks
\* Mutant: the row lock is not waited for.
LockFreeIgnored(a, p) == TRUE

\* select(Account)...with_for_update(): the row is free or already ours.
LockFree(a, p) == lock[a] \in {NoProc, p}

\* Every row lock of session p is dropped when its unit ends.
ReleaseLocks(p) == [a \in AccountIds |-> IF lock[a] = p THEN NoProc ELSE lock[a]]

\* The request of handler p ends with response r; its session is closed.
Finish(p, r) ==
    /\ pc' = [pc EXCEPT ![p] = "idle"]
    /\ req' = [req EXCEPT ![p] = NoRequest]
    /\ mem' = [mem EXCEPT ![p] = NoMem]
    /\ pend' = [pend EXCEPT ![p] = {}]
    /\ res' = [NoResponses EXCEPT ![p] = r]
    /\ users' = users

\* Mutant: the rollback leaves the flushed rows in the table.
RollbackKeepsFlushed(p, r) ==
    /\ lock' = ReleaseLocks(p)
    /\ Finish(p, r)
    /\ transactions' = transactions \cup pend[p]
    /\ UNCHANGED <<accounts, transfers, cards>>

\* Mutant: the handler raises without db.rollback() and the session stays
\* open: its row locks are kept.
RollbackKeepsLocks(p, r) ==
    /\ Finish(p, r)
    /\ UNCHANGED <<accounts, transactions, transfers, cards, lock>>

\* db.rollback() followed by raise: flushed rows and in-memory balance
\* changes are discarded, locks are dropped, nothing reaches the tables.
Rollback(p, r) ==
    /\ lock' = ReleaseLocks(p)
    /\ Finish(p, r)
    /\ UNCHANGED <<accounts, transactions, transfers, cards>>

\* ------------------------------------------------------------------- Init
Init ==
    /\ accounts = [a \in AccountIds |-> Account(IF a = 2 THEN "u2" ELSE "u1")]
    /\ transactions = {}
    /\ transfers = {}
    /\ users = InitUsers
    /\ cards = [c \in CardIds |-> Card(1, "ACTIVE", FALSE, 1, c, generate_cvv(c))]
    /\ lock = [a \in AccountIds |-> NoProc]
    /\ pc = [p \in Procs |-> "idle"]
    /\ req = [p \in Procs |-> NoRequest]
    /\ mem = [p \in Procs |-> NoMem]
    /\ pend = [p \in Procs |-> {}]
    /\ res = NoResponses

\* ---------------------------------------------------------------- deposit
\* POST /transactions/deposit: amount validation, then the request waits
\* for the account row.
create_deposit(p, user, a, amount) ==
    /\ pc[p] = "idle"
    /\ HasRoom("deposit")
    /\ IF amount <= 0
       THEN /\ Finish(p, HTTPException(400, "Amount must be positive"))
            /\ UNCHANGED <<accounts, transactions, transfers, cards, lock>>
       ELSE IF a \notin AccountIds
       THEN Rollback(p, HTTPException(404, "Account not found"))
       ELSE /\ pc' = [pc EXCEPT ![p] = "deposit_lock"]
            /\ req' = [req EXCEPT ![p] = [NoRequest EXCEPT !.op = "deposit",
                          !.user = user, !.account_id = a, !.amount = amount]]
            /\ res' = NoResponses /\ users' = users
            /\ UNCHANGED <<accounts, transactions, transfers, cards, lock, mem, pend>>

\* Mutant: the deposit does not look at the account status.
create_deposit_lock_any_status(p) ==
    /\ pc[p] = "deposit_lock"
    /\ LET a == req[p].account_id IN
            /\ LockFree(a, p)
            /\ IF accounts[a].user_id # req[p].user
               THEN Rollback(p, HTTPException(403, "No permission"))
               ELSE /\ HasRoom(req[p].op)
                    /\ lock' = [lock EXCEPT ![a] = p]
                    /\ mem' = [mem EXCEPT ![p].source = accounts[a].balance]
                    /\ pend' = [pend EXCEPT ![p] = {NewTransaction(a, "CREDIT",
                                   req[p].amount, "DEPOSIT", NoRef, NoRef, 0)}]
                    /\ pc' = [pc EXCEPT ![p] = "deposit_commit"]
                    /\ UNCHANGED <<accounts, transactions, transfers, cards, req>>
                    /\ res' = NoResponses /\ users' = users

\* Mutant: the deposit reads the account row without with_for_update().
create_deposit_lock_no_lock(p) ==
    /\ pc[p] = "deposit_lock"
    /\ LET a == req[p].account_id IN
            /\ IF accounts[a].user_id # req[p].user
               THEN Rollback(p, HTTPException(403, "No permission"))
               ELSE IF accounts[a].status # "ACTIVE"
               THEN Rollback(p, HTTPException(400, "Account is not active"))
               ELSE /\ HasRoom(req[p].op)
                    /\ mem' = [mem EXCEPT ![p].source = accounts[a].balance]
                    /\ pend' = [pend EXCEPT ![p] = {NewTransaction(a, "CREDIT",
                                   req[p].amount, "DEPOSIT", NoRef, NoRef, 0)}]
                    /\ pc' = [pc EXCEPT ![p] = "deposit_commit"]
                    /\ UNCHANGED <<accounts, transactions, transfers, cards, req, lock>>
               /\ res' = NoResponses /\ users' = users

\* SELECT account FOR UPDATE, the ownership and status checks, and the
\* flush of the CREDIT row.
create_deposit_lock(p) ==
    /\ pc[p] = "deposit_lock"
    /\ LET a == req[p].account_id IN
            /\ LockFree(a, p)
            /\ IF accounts[a].user_id # req[p].user
               THEN Rollback(p, HTTPException(403, "No permission"))
               ELSE IF accounts[a].status # "ACTIVE"
               THEN Rollback(p, HTTPException(400, "Account is not active"))
               ELSE /\ HasRoom(req[p].op)
                    /\ lock' = [lock EXCEPT ![a] = p]
                    /\ mem' = [mem EXCEPT ![p].source = accounts[a].balance]
                    /\ pend' = [pend EXCEPT ![p] = {NewTransaction(a, "CREDIT",
                                   req[p].amount, "DEPOSIT", NoRef, NoRef, 0)}]
                    /\ pc' = [pc EXCEPT ![p] = "deposit_commit"]
                    /\ UNCHANGED <<accounts, transactions, transfers, cards, req>>
               /\ res' = NoResponses /\ users' = users

\* Mutant: the deposit commits its row without the balance update.
create_deposit_commit_no_balance(p) ==
    /\ pc[p] = "deposit_commit"
    /\ transactions' = transactions \cup pend[p]
    /\ lock' = ReleaseLocks(p)
    /\ Finish(p, Response(201))
    /\ UNCHANGED <<accounts, transfers, cards>>

\* Mutant: the deposit assigns its amount to the balance instead of adding it.
create_deposit_commit_assigns(p) ==
    /\ pc[p] = "deposit_commit"
    /\ LET a == req[p].account_id IN
       /\ accounts' = [accounts EXCEPT ![a].balance = req[p].amount]
       /\ transactions' = transactions \cup pend[p]
       /\ lock' = ReleaseLocks(p)
       /\ Finish(p, Response(201))
       /\ UNCHANGED <<transfers, cards>>

\* account.balance += amount; db.commit()
create_deposit_commit(p) ==
    /\ pc[p] = "deposit_commit"
    /\ LET a == req[p].account_id IN
       /\ accounts' = [accounts EXCEPT ![a].balance = mem[p].source + req[p].amount]
       /\ transactions' = transactions \cup pend[p]
       /\ lock' = ReleaseLocks(p)
       /\ Finish(p, Response(201))
       /\ UNCHANGED <<transfers, cards>>

\* ------------------------------------------------------------- withdrawal
\* Mutant: no funds check.
FundsNeverChecked(balance, amount) == FALSE

\* Mutant: the funds check rejects a debit of the whole balance.
FundsCheckOffByOne(balance, amount) == balance <= amount

\* The funds check of the three debit paths: `account.balance < amount`.
InsufficientFunds(balance, amount) == balance < amount

\* Mutant: the withdrawal does not validate its amount.
create_withdrawal_any_amount(p, user, a, amount) ==
    /\ pc[p] = "idle"
    /\ HasRoom("withdrawal")
    /\ IF a \notin AccountIds
       THEN Rollback(p, HTTPException(404, "Account not found"))
       ELSE /\ pc' = [pc EXCEPT ![p] = "withdrawal_lock"]
            /\ req' = [req EXCEPT ![p] = [NoRequest EXCEPT !.op = "withdrawal",
                          !.user = user, !.account_id = a, !.amount = amount]]
            /\ res' = NoResponses /\ users' = users
            /\ UNCHANGED <<accounts, transactions, transfers, cards, lock, mem, pend>>

\* POST /transactions/withdrawal: amount validation.
create_withdrawal(p, user, a, amount) ==
    /\ pc[p] = "idle"
    /\ HasRoom("withdrawal")
    /\ IF amount <= 0
       THEN /\ Finish(p, HTTPException(400, "Amount must be positive"))
            /\ UNCHANGED <<accounts, transactions, transfers, cards, lock>>
       ELSE IF a \notin AccountIds
       THEN Rollback(p, HTTPException(404, "Account not found"))
       ELSE /\ pc' = [pc EXCEPT ![p] = "withdrawal_lock"]
            /\ req' = [req EXCEPT ![p] = [NoRequest EXCEPT !.op = "withdrawal",
                          !.user = user, !.account_id = a, !.amount = amount]]
            /\ res' = NoResponses /\ users' = users
            /\ UNCHANGED <<accounts, transactions, transfers, cards, lock, mem, pend>>

\* Mutant: the withdrawal reads the account row without with_for_update().
create_withdrawal_lock_no_lock(p) ==
    /\ pc[p] = "withdrawal_lock"
    /\ LET a == req[p].account_id IN
            /\ IF accounts[a].user_id # req[p].user
               THEN Rollback(p, HTTPException(403, "No permission"))
               ELSE IF accounts[a].status # "ACTIVE"
               THEN Rollback(p, HTTPException(400, "Account is not active"))
               ELSE IF InsufficientFunds(accounts[a].balance, req[p].amount)
               THEN Rollback(p, HTTPException(400, "Insufficient funds"))
               ELSE /\ HasRoom(req[p].op)
                    /\ mem' = [mem EXCEPT ![p].source = accounts[a].balance]
                    /\ pend' = [pend EXCEPT ![p] = {NewTransaction(a, "DEBIT",
                                   req[p].amount, "WITHDRAWAL", NoRef, NoRef, 0)}]
                    /\ pc' = [pc EXCEPT ![p] = "withdrawal_commit"]
                    /\ UNCHANGED <<accounts, transactions, transfers, cards, req, lock>>
               /\ res' = NoResponses /\ users' = users

\* SELECT account FOR UPDATE, ownership, status and funds checks, and the
\* flush of the DEBIT row.
create_withdrawal_lock(p) ==
    /\ pc[p] = "withdrawal_lock"
    /\ LET a == req[p].account_id IN
            /\ LockFree(a, p)
            /\ IF accounts[a].user_id # req[p].user
               THEN Rollback(p, HTTPException(403, "No permission"))
               ELSE IF accounts[a].status # "ACTIVE"
               THEN Rollback(p, HTTPException(400, "Account is not active"))
               ELSE IF InsufficientFunds(accounts[a].balance, req[p].amount)
               THEN Rollback(p, HTTPException(400, "Insufficient funds"))
               ELSE /\ HasRoom(req[p].op)
                    /\ lock' = [lock EXCEPT ![a] = p]
                    /\ mem' = [mem EXCEPT ![p].source = accounts[a].balance]
                    /\ pend' = [pend EXCEPT ![p] = {NewTransaction(a, "DEBIT",
                                   req[p].amount, "WITHDRAWAL", NoRef, NoRef, 0)}]
                    /\ pc' = [pc EXCEPT ![p] = "withdrawal_commit"]
                    /\ UNCHANGED <<accounts, transactions, transfers, cards, req>>
               /\ res' = NoResponses /\ users' = users

\* Mutant: the withdrawal adds its amount to the balance.
create_withdrawal_commit_adds(p) ==
    /\ pc[p] = "withdrawal_commit"
    /\ LET a == req[p].account_id IN
       /\ accounts' = [accounts EXCEPT ![a].balance = mem[p].source + req[p].amount]
       /\ transactions' = transactions \cup pend[p]
       /\ lock' = ReleaseLocks(p)
       /\ Finish(p, Response(201))
       /\ UNCHANGED <<transfers, cards>>

\* account.balance -= amount; db.commit()
create_withdrawal_commit(p) ==
    /\ pc[p] = "withdrawal_commit"
    /\ LET a == req[p].account_id IN
       /\ accounts' = [accounts EXCEPT ![a].balance = mem[p].source - req[p].amount]
       /\ transactions' = transactions \cup pend[p]
       /\ lock' = ReleaseLocks(p)
       /\ Finish(p, Response(201))
       /\ UNCHANGED <<transfers, cards>>

\* ----------------------------------------------------------- card payment
\* POST /transactions/card-payment: amount validation, the unlocked read of
\* the card joined with its account, and the four card checks.
create_card_payment(p, user, c, amount) ==
    /\ pc[p] = "idle"
    /\ HasRoom("card_payment")
    /\ UNCHANGED <<accounts, transactions, transfers, cards, lock>>
    /\ IF amount <= 0
       THEN Finish(p, HTTPException(400, "Amount must be positive"))
       ELSE IF c \notin CardIds \/ accounts[cards[c].account_id].user_id # user
       THEN Finish(p, HTTPException(404, "Card not found"))
       ELSE IF cards[c].status = "FROZEN"
       THEN Finish(p, HTTPException(400, "Card is frozen"))
       ELSE IF cards[c].status = "CANCELLED"
       THEN Finish(p, HTTPException(400, "Card is cancelled"))
       ELSE IF cards[c].expired
       THEN Finish(p, HTTPException(400, "Card has expired"))
       ELSE IF cards[c].spending_limit # 0 /\ amount > cards[c].spending_limit
       THEN Finish(p, HTTPException(400, "Payment exceeds card spending limit"))
       ELSE /\ pc' = [pc EXCEPT ![p] = "card_payment_lock"]
            /\ req' = [req EXCEPT ![p] = [NoRequest EXCEPT !.op = "card_payment",
                          !.user = user, !.card_id = c,
                          !.account_id = cards[c].account_id, !.amount = amount]]
            /\ res' = NoResponses /\ users' = users
            /\ UNCHANGED <<mem, pend>>

\* Mutant: the funds check comes before the account status check.
create_card_payment_lock_funds_first(p) ==
    /\ pc[p] = "card_payment_lock"
    /\ LET a == req[p].account_id IN
       /\ LockFree(a, p)
       /\ IF InsufficientFunds(accounts[a].balance, req[p].amount)
          THEN Rollback(p, HTTPException(400, "Insufficient funds"))
          ELSE IF accounts[a].status # "ACTIVE"
          THEN Rollback(p, HTTPException(400, "Account is not active"))
          ELSE /\ HasRoom(req[p].op)
               /\ lock' = [lock EXCEPT ![a] = p]
               /\ mem' = [mem EXCEPT ![p].source = accounts[a].balance]
               /\ pend' = [pend EXCEPT ![p] = {NewTransaction(a, "DEBIT",
                              req[p].amount, "CARD_PAYMENT", NoRef, NoRef,
                              req[p].card_id)}]
               /\ pc' = [pc EXCEPT ![p] = "card_payment_commit"]
               /\ UNCHANGED <<accounts, transactions, transfers, cards, req>>
               /\ res' = NoResponses /\ users' = users

\* SELECT account FOR UPDATE, status and funds checks, flush of the DEBIT row.
create_card_payment_lock(p) ==
    /\ pc[p] = "card_payment_lock"
    /\ LET a == req[p].account_id IN
       /\ LockFree(a, p)
       /\ IF accounts[a].status # "ACTIVE"
          THEN Rollback(p, HTTPException(400, "Account is not active"))
          ELSE IF InsufficientFunds(accounts[a].balance, req[p].amount)
          THEN Rollback(p, HTTPException(400, "Insufficient funds"))
          ELSE /\ HasRoom(req[p].op)
               /\ lock' = [lock EXCEPT ![a] = p]
               /\ mem' = [mem EXCEPT ![p].source = accounts[a].balance]
               /\ pend' = [pend EXCEPT ![p] = {NewTransaction(a, "DEBIT",
                              req[p].amount, "CARD_PAYMENT", NoRef, NoRef,
                              req[p].card_id)}]
               /\ pc' = [pc EXCEPT ![p] = "card_payment_commit"]
               /\ UNCHANGED <<accounts, transactions, transfers, cards, req>>
               /\ res' = NoResponses /\ users' = users

\* Mutant: the payment row is committed without its card reference.
create_card_payment_commit_no_card(p) ==
    /\ pc[p] = "card_payment_commit"
    /\ LET a == req[p].account_id IN
       /\ accounts' = [accounts EXCEPT ![a].balance = mem[p].source - req[p].amount]
       /\ transactions' = transactions \cup {[t EXCEPT !.card_id = 0] : t \in pend[p]}
       /\ lock' = ReleaseLocks(p)
       /\ Finish(p, Response(201))
       /\ UNCHANGED <<transfers, cards>>

\* account.balance -= amount; db.commit()
create_card_payment_commit(p) ==
    /\ pc[p] = "card_payment_commit"
    /\ LET a == req[p].account_id IN
       /\ accounts' = [accounts EXCEPT ![a].balance = mem[p].source - req[p].amount]
       /\ transactions' = transactions \cup pend[p]
       /\ lock' = ReleaseLocks(p)
       /\ Finish(p, Response(201))
       /\ UNCHANGED <<transfers, cards>>

\* ---------------------------------------------------------------- transfer
\* POST /transfers: amount and same-account validation.
create_transfer(p, user, src, dst, amount) ==
    /\ pc[p] = "idle"
    /\ HasRoom("transfer")
    /\ IF amount <= 0
       THEN /\ Finish(p, HTTPException(400, "Amount must be positive"))
            /\ UNCHANGED <<accounts, transactions, transfers, cards, lock>>
       ELSE IF src = dst
       THEN /\ Finish(p, HTTPException(400, "Accounts must be different"))
            /\ UNCHANGED <<accounts, transactions, transfers, cards, lock>>
       ELSE IF src \notin AccountIds
       THEN Rollback(p, HTTPException(404, "Source account not found"))
       ELSE /\ pc' = [pc EXCEPT ![p] = "transfer_lock_source"]
            /\ req' = [req EXCEPT ![p] = [NoRequest EXCEPT !.op = "transfer",
                          !.user = user, !.account_id = src,
                          !.destination_account_id = dst, !.amount = amount]]
            /\ res' = NoResponses /\ users' = users
            /\ UNCHANGED <<accounts, transactions, transfers, cards, lock, mem, pend>>

\* SELECT source FOR UPDATE, then the ownership and status checks.
create_transfer_lock_source(p) ==
    /\ pc[p] = "transfer_lock_source"
    /\ LET a == req[p].account_id IN
            /\ LockFree(a, p)
            /\ IF accounts[a].user_id # req[p].user
               THEN Rollback(p, HTTPException(403, "No permission"))
               ELSE IF accounts[a].status # "ACTIVE"
               THEN Rollback(p, HTTPException(400, "Source account is not active"))
               ELSE /\ lock' = [lock EXCEPT ![a] = p]
                    /\ mem' = [mem EXCEPT ![p].source = accounts[a].balance]
                    /\ pc' = [pc EXCEPT ![p] = "transfer_lock_destination"]
                    /\ UNCHANGED <<accounts, transactions, transfers, cards,
                                   req, pend>>
                    /\ res' = NoResponses /\ users' = users

\* SELECT destination FOR UPDATE, its status check, the funds check on the
\* source, uuid4() for the transfer, and the flush of the DEBIT leg.
create_transfer_lock_destination(p) ==
    /\ pc[p] = "transfer_lock_destination"
    /\ LET d == req[p].destination_account_id
           tid == uuid4(<<req[p].account_id, d, req[p].amount>>, TransferIdsInUse)
       IN
       IF d \notin AccountIds
       THEN Rollback(p, HTTPException(404, "Destination account not found"))
       ELSE /\ LockFree(d, p)
            /\ IF accounts[d].status # "ACTIVE"
               THEN Rollback(p, HTTPException(400, "Destination account is not active"))
               ELSE IF InsufficientFunds(mem[p].source, req[p].amount)
               THEN Rollback(p, HTTPException(400, "Insufficient funds"))
               ELSE /\ HasRoom(req[p].op)
                    /\ lock' = [lock EXCEPT ![d] = p]
                    /\ mem' = [mem EXCEPT ![p].destination = accounts[d].balance,
                                          ![p].transfer_id = tid]
                    /\ pend' = [pend EXCEPT ![p] = {NewTransaction(req[p].account_id,
                                   "DEBIT", req[p].amount, "TRANSFER",
                                   TransferRef(tid), tid, 0)}]
                    /\ pc' = [pc EXCEPT ![p] = "transfer_credit"]
                    /\ UNCHANGED <<accounts, transactions, transfers, cards, req>>
               /\ res' = NoResponses /\ users' = users

\* Mutant: the CREDIT leg is written on the source account.
create_transfer_credit_on_source(p) ==
    /\ pc[p] = "transfer_credit"
    /\ pend' = [pend EXCEPT ![p] = @ \cup {NewTransaction(
                   req[p].account_id, "CREDIT", req[p].amount, "TRANSFER",
                   TransferRef(mem[p].transfer_id), mem[p].transfer_id, 0)}]
    /\ pc' = [pc EXCEPT ![p] = "transfer_commit"]
    /\ UNCHANGED <<accounts, transactions, transfers, cards, lock, req, mem>>
    /\ res' = NoResponses /\ users' = users

\* Mutant: the CREDIT leg is written without its transfer_id.
create_transfer_credit_no_transfer_id(p) ==
    /\ pc[p] = "transfer_credit"
    /\ pend' = [pend EXCEPT ![p] = @ \cup {NewTransaction(req[p].destination_account_id,
                   "CREDIT", req[p].amount, "TRANSFER",
                   TransferRef(mem[p].transfer_id), NoRef, 0)}]
    /\ pc' = [pc EXCEPT ![p] = "transfer_commit"]
    /\ UNCHANGED <<accounts, transactions, transfers, cards, lock, req, mem>>
    /\ res' = NoResponses /\ users' = users

\* db.add(credit_transaction); db.flush()
create_transfer_credit(p) ==
    /\ pc[p] = "transfer_credit"
    /\ pend' = [pend EXCEPT ![p] = @ \cup {NewTransaction(req[p].destination_account_id,
                   "CREDIT", req[p].amount, "TRANSFER",
                   TransferRef(mem[p].transfer_id), mem[p].transfer_id, 0)}]
    /\ pc' = [pc EXCEPT ![p] = "transfer_commit"]
    /\ UNCHANGED <<accounts, transactions, transfers, cards, lock, req, mem>>
    /\ res' = NoResponses /\ users' = users

debit_transaction(p) == CHOOSE t \in pend[p] : t.type = "DEBIT"

credit_transaction(p) == CHOOSE t \in pend[p] : t.type = "CREDIT"

\* Mutant: the Transfer row names its two legs the wrong way round.
db_transfer_swapped(p) ==
    Transfer(mem[p].transfer_id, req[p].account_id, req[p].destination_account_id,
             req[p].amount, credit_transaction(p).id, debit_transaction(p).id)

\* The Transfer row of the request of p.
db_transfer(p) ==
    Transfer(mem[p].transfer_id, req[p].account_id, req[p].destination_account_id,
             req[p].amount, debit_transaction(p).id, credit_transaction(p).id)

\* Mutant: the transfer commits without crediting the destination.
create_transfer_commit_debit_only(p) ==
    /\ pc[p] = "transfer_commit"
    /\ LET a == req[p].account_id IN
       /\ accounts' = [accounts EXCEPT ![a].balance = mem[p].source - req[p].amount]
       /\ transactions' = transactions \cup pend[p]
       /\ transfers' = transfers \cup {db_transfer(p)}
       /\ lock' = ReleaseLocks(p)
       /\ Finish(p, Response(201))
       /\ UNCHANGED cards

\* Both balance updates, db.add(db_transfer) and db.commit().
create_transfer_commit(p) ==
    /\ pc[p] = "transfer_commit"
    /\ LET a == req[p].account_id
           d == req[p].destination_account_id
       IN
       /\ accounts' = [accounts EXCEPT
                          ![a].balance = mem[p].source - req[p].amount,
                          ![d].balance = mem[p].destination + req[p].amount]
       /\ transactions' = transactions \cup pend[p]
       /\ transfers' = transfers \cup {db_transfer(p)}
       /\ lock' = ReleaseLocks(p)
       /\ Finish(p, Response(201))
       /\ UNCHANGED cards

\* ------------------------------------------------- account status changes
\* The unlocked read shared by freeze, unfreeze and close:
\* db.query(Account).filter(id, user_id).first()
OwnedAccount(user, a) == a \in AccountIds /\ accounts[a].user_id = user

\* The handler goes on to write `status` at its commit.
StatusPending(p, op, user, a, status) ==
    /\ pc' = [pc EXCEPT ![p] = op]
    /\ req' = [req EXCEPT ![p] = [NoRequest EXCEPT !.op = op, !.user = user,
                                                    !.account_id = a]]
    /\ mem' = [mem EXCEPT ![p].status = status]
    /\ res' = NoResponses /\ users' = users
    /\ UNCHANGED pend

\* Mutant: the UPDATE of the status does not wait for the row lock.
StatusCommitNoWait(p) ==
    /\ accounts' = [accounts EXCEPT ![req[p].account_id].status = mem[p].status]
    /\ Finish(p, Response(200))
    /\ UNCHANGED <<transactions, transfers, cards, lock>>

\* account.status = ...; db.commit(): the UPDATE of the one changed column
\* waits for the row lock of a session that holds it.
StatusCommit(p) ==
    /\ lock[req[p].account_id] = NoProc
    /\ accounts' = [accounts EXCEPT ![req[p].account_id].status = mem[p].status]
    /\ Finish(p, Response(200))
    /\ UNCHANGED <<transactions, transfers, cards, lock>>

\* PATCH /accounts/{id}/freeze: the read and the two status checks.
freeze_account(p, user, a) ==
    /\ pc[p] = "idle"
    /\ UNCHANGED <<accounts, transactions, transfers, cards, lock>>
    /\ IF ~OwnedAccount(user, a)
       THEN Finish(p, HTTPException(404, "Account not found"))
       ELSE IF accounts[a].status = "CLOSED"
       THEN Finish(p, HTTPException(400, "Cannot freeze a closed account"))
       ELSE IF accounts[a].status = "FROZEN"
       THEN Finish(p, HTTPException(400, "Account is already frozen"))
       ELSE StatusPending(p, "freeze_account", user, a, "FROZEN")

freeze_account_commit(p) ==
    /\ pc[p] = "freeze_account"
    /\ StatusCommit(p)

\* PATCH /accounts/{id}/unfreeze
unfreeze_account(p, user, a) ==
    /\ pc[p] = "idle"
    /\ UNCHANGED <<accounts, transactions, transfers, cards, lock>>
    /\ IF ~OwnedAccount(user, a)
       THEN Finish(p, HTTPException(404, "Account not found"))
       ELSE IF accounts[a].status # "FROZEN"
       THEN Finish(p, HTTPException(400, "Account is not frozen"))
       ELSE StatusPending(p, "unfreeze_account", user, a, "ACTIVE")

unfreeze_account_commit(p) ==
    /\ pc[p] = "unfreeze_account"
    /\ StatusCommit(p)

\* Mutant: close without the balance check.
close_account_any_balance(p, user, a) ==
    /\ pc[p] = "idle"
    /\ UNCHANGED <<accounts, transactions, transfers, cards, lock>>
    /\ IF ~OwnedAccount(user, a)
       THEN Finish(p, HTTPException(404, "Account not found"))
       ELSE IF accounts[a].status = "CLOSED"
       THEN Finish(p, HTTPException(400, "Account is already closed"))
       ELSE StatusPending(p, "close_account", user, a, "CLOSED")

\* PATCH /accounts/{id}/close
close_account(p, user, a) ==
    /\ pc[p] = "idle"
    /\ UNCHANGED <<accounts, transactions, transfers, cards, lock>>
    /\ IF ~OwnedAccount(user, a)
       THEN Finish(p, HTTPException(404, "Account not found"))
       ELSE IF accounts[a].status = "CLOSED"
       THEN Finish(p, HTTPException(400, "Account is already closed"))
       ELSE IF accounts[a].balance # 0
       THEN Finish(p, HTTPException(400, "Cannot close account with non-zero balance"))
       ELSE StatusPending(p, "close_account", user, a, "CLOSED")

\* Mutant: closing an account deletes its transaction rows (the cascade of
\* Account.transactions).
close_account_commit_purges(p) ==
    /\ pc[p] = "close_account"
    /\ lock[req[p].account_id] = NoProc
    /\ accounts' = [accounts EXCEPT ![req[p].account_id].status = mem[p].status]
    /\ transactions' = {t \in transactions : t.account_id # req[p].account_id}
    /\ Finish(p, Response(200))
    /\ UNCHANGED <<transfers, cards, lock>>

\* Mutant: closing an account also sets its balance to zero.
close_account_commit_zeroes(p) ==
    /\ pc[p] = "close_account"
    /\ lock[req[p].account_id] = NoProc
    /\ accounts' = [accounts EXCEPT ![req[p].account_id].status = mem[p].status,
                                    ![req[p].account_id].balance = 0]
    /\ Finish(p, Response(200))
    /\ UNCHANGED <<transactions, transfers, cards, lock>>

close_account_commit(p) ==
    /\ pc[p] = "close_account"
    /\ StatusCommit(p)

\* ---------------------------------------------------- card status changes
\* Mutant: the card is read without the filter on the account's owner.
OwnedCardAnyUser(user, c) == c \in CardIds

\* The unlocked read shared by the card handlers:
\* select(Card).join(Account).filter(Card.id, Account.user_id)
OwnedCard(user, c) ==
    c \in CardIds /\ accounts[cards[c].account_id].user_id = user

CardNotFound == HTTPException(404, "Card not found")

\* The handler goes on to write `status` on the card at its commit.
CardStatusPending(p, op, user, c, status) ==
    /\ pc' = [pc EXCEPT ![p] = op]
    /\ req' = [req EXCEPT ![p] = [NoRequest EXCEPT !.op = op, !.user = user,
                                                    !.card_id = c]]
    /\ mem' = [mem EXCEPT ![p].status = status]
    /\ res' = NoResponses /\ users' = users
    /\ UNCHANGED pend

\* card.status = ...; db.commit()
CardStatusCommit(p) ==
    /\ cards' = [cards EXCEPT ![req[p].card_id].status = mem[p].status]
    /\ Finish(p, Response(200))
    /\ UNCHANGED <<accounts, transactions, transfers, lock>>

\* Mutant: freeze_card without its check for a cancelled card.
freeze_card_unchecked(p, user, c) ==
    /\ pc[p] = "idle"
    /\ UNCHANGED <<accounts, transactions, transfers, cards, lock>>
    /\ IF ~OwnedCard(user, c)
       THEN Finish(p, CardNotFound)
       ELSE IF cards[c].status = "FROZEN"
       THEN Finish(p, HTTPException(400, "Card is already frozen"))
       ELSE CardStatusPending(p, "freeze_card", user, c, "FROZEN")

\* PATCH /cards/{id}/freeze: the read and the two status checks.
freeze_card(p, user, c) ==
    /\ pc[p] = "idle"
    /\ UNCHANGED <<accounts, transactions, transfers, cards, lock>>
    /\ IF ~OwnedCard(user, c)
       THEN Finish(p, CardNotFound)
       ELSE IF cards[c].status = "CANCELLED"
       THEN Finish(p, HTTPException(400, "Cannot freeze a cancelled card"))
       ELSE IF cards[c].status = "FROZEN"
       THEN Finish(p, HTTPException(400, "Card is already frozen"))
       ELSE CardStatusPending(p, "freeze_card", user, c, "FROZEN")

freeze_card_commit(p) ==
    /\ pc[p] = "freeze_card"
    /\ CardStatusCommit(p)

\* PATCH /cards/{id}/unfreeze
unfreeze_card(p, user, c) ==
    /\ pc[p] = "idle"
    /\ UNCHANGED <<accounts, transactions, transfers, cards, lock>>
    /\ IF ~OwnedCard(user, c)
       THEN Finish(p, CardNotFound)
       ELSE IF cards[c].status # "FROZEN"
       THEN Finish(p, HTTPException(400, "Card is not frozen"))
       ELSE CardStatusPending(p, "unfreeze_card", user, c, "ACTIVE")

unfreeze_card_commit(p) ==
    /\ pc[p] = "unfreeze_card"
    /\ CardStatusCommit(p)

\* DELETE /cards/{id}
cancel_card(p, user, c) ==
    /\ pc[p] = "idle"
    /\ UNCHANGED <<accounts, transactions, transfers, cards, lock>>
    /\ IF ~OwnedCard(user, c)
       THEN Finish(p, CardNotFound)
       ELSE IF cards[c].status = "CANCELLED"
       THEN Finish(p, HTTPException(400, "Card is already cancelled"))
       ELSE CardStatusPending(p, "cancel_card", user, c, "CANCELLED")

cancel_card_commit(p) ==
    /\ pc[p] = "cancel_card"
    /\ CardStatusCommit(p)

\* datetime.utcnow() moves past card.expiry_date.
card_expires(c) ==
    /\ ~cards[c].expired
    /\ cards' = [cards EXCEPT ![c].expired = TRUE]
    /\ res' = NoResponses /\ users' = users
    /\ UNCHANGED <<accounts, transactions, transfers, lock, pc, req, mem, pend>>

\* ----------------------------------------------------------- card creation
MaxAttempts == 2       \* stands for max_attempts = 100
MaxCardNumber == 2     \* card numbers are 1..MaxCardNumber
MaxCards == 3          \* rows the card table can hold

CardNumbers == 1..MaxCardNumber

\* The candidates that generate_card_number() returns in the attempts of one
\* request.
Draws == [1..MaxAttempts -> CardNumbers]

Digits == {"0", "1", "2", "3", "4", "5", "6", "7", "8", "9"}

\* PINs of a request, as character sequences.
Pins == {<<"1", "2", "3", "4">>, <<"1", "2", "a">>, <<"1", "2", "3", "a">>,
         <<"1", "2", "3", "4", "5">>}

\* len(card.pin) != 4 or not card.pin.isdigit()
PinRejected(pin) == Len(pin) # 4 \/ \E i \in 1..Len(pin) : pin[i] \notin Digits

\* select(Card).filter(Card.card_number == card_number): a committed row.
NumberExists(n) == \E c \in DOMAIN cards : cards[c].card_number = n

\* The loop over range(max_attempts): card_number is the first candidate
\* that no card has, or the last candidate when every attempt collides.
GeneratedNumber(draws) ==
    LET free == {i \in 1..Len(draws) : ~NumberExists(draws[i])}
    IN  IF free = {}
        THEN draws[Len(draws)]
        ELSE draws[CHOOSE i \in free : \A j \in free : i <= j]

\* Mutant: the store enforces no constraint of table cards.
IntegrityNeverViolated(row) == FALSE

\* The constraints of table cards that an INSERT can violate: cvv and
\* card_number are NOT NULL, card_number is UNIQUE (0 is the None of
\* card_number).
IntegrityViolated(row) ==
    \/ row.cvv = NULL
    \/ row.card_number = 0
    \/ NumberExists(row.card_number)

\* uuid.uuid4() for the new card row.
NewCardId == 10 + Cardinality(DOMAIN cards)

\* Mutant: the card row is built with its cvv.
CardRowWithCvv(p) ==
    Card(req[p].account_id, "ACTIVE", FALSE, req[p].spending_limit,
         mem[p].card_number, generate_cvv(mem[p].card_number))

\* db_card = Card(...): every column but cvv is given.
CardRow(p) ==
    Card(req[p].account_id, "ACTIVE", FALSE, req[p].spending_limit,
         mem[p].card_number, NULL)

\* POST /cards: the account lookup, the status and PIN checks and the draw
\* of the card number.
create_card(p, user, a, pin, limit, draws) ==
    /\ pc[p] = "idle"
    /\ Cardinality(DOMAIN cards) < MaxCards
    /\ UNCHANGED <<accounts, transactions, transfers, cards, lock>>
    /\ IF a \notin AccountIds \/ accounts[a].user_id # user
       THEN Finish(p, HTTPException(404, "Account not found or you don't have access"))
       ELSE IF accounts[a].status # "ACTIVE"
       THEN Finish(p, HTTPException(400, "Cannot create card for inactive account"))
       ELSE IF PinRejected(pin)
       THEN Finish(p, HTTPException(400, "PIN must be exactly 4 digits"))
       ELSE IF GeneratedNumber(draws) = 0
       THEN Finish(p, HTTPException(500, "Failed to generate unique card number"))
       ELSE /\ pc' = [pc EXCEPT ![p] = "create_card_commit"]
            /\ req' = [req EXCEPT ![p] = [NoRequest EXCEPT !.op = "create_card",
                          !.user = user, !.account_id = a, !.spending_limit = limit]]
            /\ mem' = [mem EXCEPT ![p].card_number = GeneratedNumber(draws)]
            /\ res' = NoResponses /\ users' = users
            /\ UNCHANGED pend

\* db.add(db_card); db.commit(): the INSERT either violates a constraint,
\* and the IntegrityError leaves the handler uncaught, or the row is
\* committed and the handler answers 201.
create_card_commit(p) ==
    /\ pc[p] = "create_card_commit"
    /\ UNCHANGED <<accounts, transactions, transfers, lock>>
    /\ IF IntegrityViolated(CardRow(p))
       THEN /\ Finish(p, HTTPException(500, "Internal Server Error"))
            /\ UNCHANGED cards
       ELSE /\ cards' = cards @@ (NewCardId :> CardRow(p))
            /\ Finish(p, Response(201))

\* GET /cards/{card_id}: the card joined with its account, as CardOut.
get_card(p, user, c) ==
    /\ pc[p] = "idle"
    /\ UNCHANGED <<accounts, transactions, transfers, cards, lock>>
    /\ IF ~OwnedCard(user, c)
       THEN Finish(p, CardNotFound)
       ELSE Finish(p, Response(200))

\* GET /cards: the cards of the caller's accounts, each as CardOut.
get_cards(p, user) ==
    /\ pc[p] = "idle"
    /\ UNCHANGED <<accounts, transactions, transfers, cards, lock>>
    /\ Finish(p, Response(200))

\* Fields of the response schemas.
CardOut ==
    {"id", "account_id", "card_number_masked", "card_holder_name", "expiry_date",
     "card_type", "status", "spending_limit", "created_at"}

CardCreateResponse ==
    {"id", "account_id", "card_number", "card_holder_name", "cvv", "expiry_date",
     "card_type", "status", "spending_limit", "created_at", "message"}

TransactionOut ==
    {"id", "account_id", "type", "amount", "description", "reference", "created_at",
     "category", "transfer_id", "card_id"}

AccountOut == {"id", "user_id", "type", "balance", "status", "created_at"}

TransferOut ==
    {"id", "source_account_id", "destination_account_id", "amount", "description",
     "created_at", "source_transaction_id", "destination_transaction_id"}

\* response_model of the route of op.
response_model(op) ==
    CASE op = "create_card" -> CardCreateResponse
      [] op \in {"get_card", "get_cards", "freeze_card", "unfreeze_card",
                 "cancel_card"} -> CardOut
      [] op \in {"deposit", "withdrawal", "card_payment"} -> TransactionOut
      [] op = "transfer" -> TransferOut
      [] OTHER -> AccountOut

\* ------------------------------------------------------------------ signup
\* Emails a signup request carries: one that a user has, and a new one.
Emails == {"u1@example.com", "new@example.com"}

\* select(User).filter(User.email == user.email): a committed row.
EmailRegistered(email) == \E u \in users : u.email = email

\* The unique index on users.email, as the INSERT of the commit sees it.
EmailTaken(email) == EmailRegistered(email)

\* uuid.uuid4() for the new user row.
NewUserId == CHOOSE id \in {"u3", "u4", "u5"} : \A u \in users : u.id # id

\* POST /auth/signup: the check that no user has the email.
signup(p, email) ==
    /\ pc[p] = "idle"
    /\ UNCHANGED <<accounts, transactions, transfers, cards, lock>>
    /\ IF EmailRegistered(email)
       THEN Finish(p, HTTPException(400, "Email already registered"))
       ELSE /\ pc' = [pc EXCEPT ![p] = "signup_commit"]
            /\ req' = [req EXCEPT ![p] = [NoRequest EXCEPT !.op = "signup",
                                                            !.email = email]]
            /\ res' = NoResponses /\ users' = users
            /\ UNCHANGED <<mem, pend>>

\* db.add(db_user); db.commit(): the INSERT either violates the unique index,
\* and the IntegrityError leaves the handler uncaught, or the row is
\* committed and the handler answers with the token.
signup_commit(p) ==
    /\ pc[p] = "signup_commit"
    /\ UNCHANGED <<accounts, transactions, transfers, cards, lock>>
    /\ IF EmailTaken(req[p].email)
       THEN Finish(p, HTTPException(500, "Internal Server Error"))
       ELSE /\ users' = users \cup {User(NewUserId, req[p].email)}
            /\ pc' = [pc EXCEPT ![p] = "idle"]
            /\ req' = [req EXCEPT ![p] = NoRequest]
            /\ mem' = [mem EXCEPT ![p] = NoMem]
            /\ pend' = [pend EXCEPT ![p] = {}]
            /\ res' = [NoResponses EXCEPT ![p] = Response(200)]

\* ---------------------------------------------------------- authentication
\* The bearer token of a request: whether the Authorization header is there,
\* whether the signature verifies, whether exp has passed, and the sub claim
\* ("none" when the payload has no sub).
Token(present, signed, expired, sub) ==
    [present |-> present, signed |-> signed, expired |-> expired, sub |-> sub]

\* No header; a forged token; an expired token; a token without sub; the
\* token of a user whose row is gone; the tokens of the two users.
Tokens ==
    {Token(FALSE, FALSE, FALSE, "none"),
     Token(TRUE, FALSE, FALSE, "u1"),
     Token(TRUE, TRUE, TRUE, "u1"),
     Token(TRUE, TRUE, FALSE, "none"),
     Token(TRUE, TRUE, FALSE, "u9"),
     Token(TRUE, TRUE, FALSE, "u1"),
     Token(TRUE, TRUE, FALSE, "u2")}

\* The outcome of the dependency: the user, or the exception raised.
Principal(user) == [ok |-> TRUE, user |-> user, error |-> NoResponse]
Unauthorized(detail) == [ok |-> FALSE, user |-> "none", error |-> HTTPException(401, detail)]

\* Mutant: the token is decoded without verifying signature and expiry.
get_current_user_unverified(token) ==
    IF ~token.present THEN Unauthorized("Not authenticated")
    ELSE IF token.sub = "none" THEN Unauthorized("Invalid token")
    ELSE IF \A u \in users : u.id # token.sub THEN Unauthorized("User not found")
    ELSE Principal(token.sub)

\* oauth2_scheme, jwt.decode, the sub claim and db.get(User, ...).
get_current_user(token) ==
    IF ~token.present THEN Unauthorized("Not authenticated")
    ELSE IF ~token.signed \/ token.expired THEN Unauthorized("Invalid token")
    ELSE IF token.sub = "none" THEN Unauthorized("Invalid token")
    ELSE IF \A u \in users : u.id # token.sub THEN Unauthorized("User not found")
    ELSE Principal(token.sub)

\* The dependency raises: the handler body never runs and the request ends
\* with the exception.
Reject(p, token) ==
    /\ pc[p] = "idle"
    /\ Finish(p, get_current_user(token).error)
    /\ UNCHANGED <<accounts, transactions, transfers, cards, lock>>

\* The routes: current_user: User = Depends(get_current_user), then the
\* handler body with that user.
post_transactions_deposit(p, token, a, amount) ==
    IF get_current_user(token).ok
    THEN create_deposit(p, get_current_user(token).user, a, amount)
    ELSE Reject(p, token)

post_transfers(p, token, src, dst, amount) ==
    IF get_current_user(token).ok
    THEN create_transfer(p, get_current_user(token).user, src, dst, amount)
    ELSE Reject(p, token)

patch_accounts_freeze(p, token, a) ==
    IF get_current_user(token).ok
    THEN freeze_account(p, get_current_user(token).user, a)
    ELSE Reject(p, token)

patch_accounts_unfreeze(p, token, a) ==
    IF get_current_user(token).ok
    THEN unfreeze_account(p, get_current_user(token).user, a)
    ELSE Reject(p, token)

post_cards(p, token, a, pin, limit, draws) ==
    IF get_current_user(token).ok
    THEN create_card(p, get_current_user(token).user, a, pin, limit, draws)
    ELSE Reject(p, token)

get_cards_id(p, token, c) ==
    IF get_current_user(token).ok
    THEN get_card(p, get_current_user(token).user, c)
    ELSE Reject(p, token)

patch_cards_freeze(p, token, c) ==
    IF get_current_user(token).ok
    THEN freeze_card(p, get_current_user(token).user, c)
    ELSE Reject(p, token)

delete_cards_id(p, token, c) ==
    IF get_current_user(token).ok
    THEN cancel_card(p, get_current_user(token).user, c)
    ELSE Reject(p, token)

\* ---------------------------------------------------------- store failures
\* Program points at which a flush or the commit is still to run.
Writing == {"deposit_commit", "withdrawal_commit", "card_payment_commit",
            "transfer_credit", "transfer_commit",
            "freeze_account", "unfreeze_account", "close_account",
            "freeze_card", "unfreeze_card", "cancel_card"}

\* Program points that wait for an account row.
WaitsFor(p) ==
    CASE pc[p] \in {"deposit_lock", "withdrawal_lock", "card_payment_lock",
                    "transfer_lock_source", "freeze_account", "unfreeze_account",
                    "close_account"} -> req[p].account_id
      [] pc[p] = "transfer_lock_destination" -> req[p].destination_account_id
      [] OTHER -> 0

Blocked(p) ==
    /\ WaitsFor(p) \in AccountIds
    /\ lock[WaitsFor(p)] \notin {NoProc, p}

\* detail=f"... failed: {str(e)}" of the handler's `except Exception`; the
\* account handlers catch nothing and the framework answers for them.
FailedDetail(op, e) ==
    CASE op = "deposit" /\ e = "OperationalError" -> "Deposit failed: OperationalError"
      [] op = "deposit" -> "Deposit failed: Exception"
      [] op = "withdrawal" /\ e = "OperationalError" -> "Withdrawal failed: OperationalError"
      [] op = "withdrawal" -> "Withdrawal failed: Exception"
      [] op = "card_payment" /\ e = "OperationalError" -> "Card payment failed: OperationalError"
      [] op = "card_payment" -> "Card payment failed: Exception"
      [] op = "transfer" /\ e = "OperationalError" -> "Transfer failed: OperationalError"
      [] op = "transfer" -> "Transfer failed: Exception"
      [] OTHER -> "Internal Server Error"

\* except IntegrityError -> 400, except Exception -> 500.
ExceptionResponse(op, e) ==
    IF e = "IntegrityError" /\ RowsNeeded(op) > 0
    THEN HTTPException(400, "Database integrity error")
    ELSE HTTPException(500, FailedDetail(op, e))

\* Mutant: the failing unit leaves its balance update behind.
store_failure_half_applied(p, e) ==
    /\ pc[p] \in Writing
    /\ accounts' = [a \in AccountIds |->
                       IF a = req[p].account_id
                       THEN [accounts[a] EXCEPT !.balance = @ + req[p].amount]
                       ELSE accounts[a]]
    /\ lock' = ReleaseLocks(p)
    /\ Finish(p, ExceptionResponse(req[p].op, e))
    /\ UNCHANGED <<transactions, transfers, cards>>

\* A flush or the commit raises: the except clause rolls the unit back.
store_failure(p, e) ==
    /\ pc[p] \in Writing
    /\ Rollback(p, ExceptionResponse(req[p].op, e))

\* The wait for a locked row exceeds the connection timeout; the driver
\* raises OperationalError.
lock_timeout(p) ==
    /\ Blocked(p)
    /\ Rollback(p, ExceptionResponse(req[p].op, "OperationalError"))

Next ==
    \/ \E p \in Procs, u \in Users, a \in RequestAccountIds, m \in Amounts :
          create_deposit(p, u, a, m)
    \/ \E p \in Procs : create_deposit_lock(p)
    \/ \E p \in Procs : create_deposit_commit(p)
    \/ \E p \in Procs, u \in Users, a \in RequestAccountIds, m \in Amounts :
          create_withdrawal(p, u, a, m)
    \/ \E p \in Procs : create_withdrawal_lock(p)
    \/ \E p \in Procs : create_withdrawal_commit(p)
    \/ \E p \in Procs, u \in Users, c \in RequestCardIds, m \in Amounts :
          create_card_payment(p, u, c, m)
    \/ \E p \in Procs : create_card_payment_lock(p)
    \/ \E p \in Procs : create_card_payment_commit(p)
    \/ \E p \in Procs, u \in Users, a \in RequestAccountIds,
          d \in RequestAccountIds, m \in Amounts : create_transfer(p, u, a, d, m)
    \/ \E p \in Procs : create_transfer_lock_source(p)
    \/ \E p \in Procs : create_transfer_lock_destination(p)
    \/ \E p \in Procs : create_transfer_credit(p)
    \/ \E p \in Procs : create_transfer_commit(p)
    \/ \E p \in Procs, u \in Users, a \in RequestAccountIds : freeze_account(p, u, a)
    \/ \E p \in Procs : freeze_account_commit(p)
    \/ \E p \in Procs, u \in Users, a \in RequestAccountIds : unfreeze_account(p, u, a)
    \/ \E p \in Procs : unfreeze_account_commit(p)
    \/ \E p \in Procs, u \in Users, a \in RequestAccountIds : close_account(p, u, a)
    \/ \E p \in Procs : close_account_commit(p)
    \/ \E p \in Procs, e \in {"IntegrityError", "Exception"} : store_failure(p, e)
    \/ \E p \in Procs : lock_timeout(p)

Spec == Init /\ [][Next]_vars

\* ------------------------------------------------------------ card service
\* The card on account 1 and the requests that meet it: payments, the card's
\* status changes, the passing of its expiry date, deposits that fund the
\* account and the freezing of the account.
SpendingLimits == {0, MaxAmount}          \* NULL, or a limit
PaymentAmounts == 0..(MaxAmount + 1)      \* up to one above the limit

CardInit ==
    /\ accounts = [a \in AccountIds |-> Account(IF a = 2 THEN "u2" ELSE "u1")]
    /\ transactions = {}
    /\ transfers = {}
    /\ users = InitUsers
    /\ \E l \in SpendingLimits : cards = [c \in CardIds |-> Card(1, "ACTIVE", FALSE, l, c, generate_cvv(c))]
    /\ lock = [a \in AccountIds |-> NoProc]
    /\ pc = [p \in Procs |-> "idle"]
    /\ req = [p \in Procs |-> NoRequest]
    /\ mem = [p \in Procs |-> NoMem]
    /\ pend = [p \in Procs |-> {}]
    /\ res = NoResponses

CardNext ==
    \/ \E p \in Procs, u \in Users, c \in RequestCardIds, m \in PaymentAmounts :
          create_card_payment(p, u, c, m)
    \/ \E p \in Procs : create_card_payment_lock(p)
    \/ \E p \in Procs : create_card_payment_commit(p)
    \/ \E p \in Procs, u \in Users, c \in RequestCardIds : freeze_card(p, u, c)
    \/ \E p \in Procs : freeze_card_commit(p)
    \/ \E p \in Procs, u \in Users, c \in RequestCardIds : unfreeze_card(p, u, c)
    \/ \E p \in Procs : unfreeze_card_commit(p)
    \/ \E p \in Procs, u \in Users, c \in RequestCardIds : cancel_card(p, u, c)
    \/ \E p \in Procs : cancel_card_commit(p)
    \/ \E c \in CardIds : card_expires(c)
    \/ \E p \in Procs, m \in Amounts : create_deposit(p, "u1", 1, m)
    \/ \E p \in Procs : create_deposit_lock(p)
    \/ \E p \in Procs : create_deposit_commit(p)
    \/ \E p \in Procs : freeze_account(p, "u1", 1)
    \/ \E p \in Procs : freeze_account_commit(p)
    \/ \E p \in Procs : unfreeze_account(p, "u1", 1)
    \/ \E p \in Procs : unfreeze_account_commit(p)
    \/ \E p \in Procs, e \in {"IntegrityError", "Exception"} : store_failure(p, e)
    \/ \E p \in Procs : lock_timeout(p)

CardSpec == CardInit /\ [][CardNext]_vars

\* ------------------------------------------------------------ whole service
\* Every handler of the service: one session moves money between the
\* accounts while any session changes the status of account 1 and of its
\* card.
MoneyProcs == {"r1"}                  \* the session that moves money
StatusAccountIds == {1, 4}             \* ids status requests name; 4 has no row

ServiceNext ==
    \/ \E p \in MoneyProcs, u \in Users, a \in RequestAccountIds, m \in Amounts :
          create_deposit(p, u, a, m)
    \/ \E p \in MoneyProcs : create_deposit_lock(p)
    \/ \E p \in MoneyProcs : create_deposit_commit(p)
    \/ \E p \in MoneyProcs, u \in Users, a \in RequestAccountIds, m \in Amounts :
          create_withdrawal(p, u, a, m)
    \/ \E p \in MoneyProcs : create_withdrawal_lock(p)
    \/ \E p \in MoneyProcs : create_withdrawal_commit(p)
    \/ \E p \in MoneyProcs, u \in Users, c \in RequestCardIds, m \in PaymentAmounts :
          create_card_payment(p, u, c, m)
    \/ \E p \in MoneyProcs : create_card_payment_lock(p)
    \/ \E p \in MoneyProcs : create_card_payment_commit(p)
    \/ \E p \in MoneyProcs, u \in Users, a \in RequestAccountIds,
          d \in RequestAccountIds, m \in Amounts : create_transfer(p, u, a, d, m)
    \/ \E p \in MoneyProcs : create_transfer_lock_source(p)
    \/ \E p \in MoneyProcs : create_transfer_lock_destination(p)
    \/ \E p \in MoneyProcs : create_transfer_credit(p)
    \/ \E p \in MoneyProcs : create_transfer_commit(p)
    \/ \E p \in Procs, u \in Users, a \in StatusAccountIds : freeze_account(p, u, a)
    \/ \E p \in Procs : freeze_account_commit(p)
    \/ \E p \in Procs, u \in Users, a \in StatusAccountIds : unfreeze_account(p, u, a)
    \/ \E p \in Procs : unfreeze_account_commit(p)
    \/ \E p \in Procs, u \in Users, a \in StatusAccountIds : close_account(p, u, a)
    \/ \E p \in Procs : close_account_commit(p)
    \/ \E p \in Procs, u \in Users, c \in RequestCardIds : freeze_card(p, u, c)
    \/ \E p \in Procs : freeze_card_commit(p)
    \/ \E p \in Procs, u \in Users, c \in RequestCardIds : unfreeze_card(p, u, c)
    \/ \E p \in Procs : unfreeze_card_commit(p)
    \/ \E p \in Procs, u \in Users, c \in RequestCardIds : cancel_card(p, u, c)
    \/ \E p \in Procs : cancel_card_commit(p)
    \/ \E c \in CardIds : card_expires(c)
    \/ \E p \in Procs, e \in {"IntegrityError", "Exception"} : store_failure(p, e)
    \/ \E p \in Procs : lock_timeout(p)

ServiceSpec == Init /\ [][ServiceNext]_vars

\* ------------------------------------------------------------ card issuing
\* Card creation next to the handlers that use a card afterwards: the status
\* changes of the card and of its account, deposits and card payments.
CreateCardAccountIds == {1, 4}

CreateCardNext ==
    \/ \E p \in Procs, u \in Users, a \in CreateCardAccountIds, pin \in Pins,
          l \in SpendingLimits, draws \in Draws : create_card(p, u, a, pin, l, draws)
    \/ \E p \in Procs : create_card_commit(p)
    \/ \E p \in Procs, u \in Users, c \in RequestCardIds : get_card(p, u, c)
    \/ \E p \in Procs, u \in Users : get_cards(p, u)
    \/ \E p \in Procs, u \in Users, c \in RequestCardIds : freeze_card(p, u, c)
    \/ \E p \in Procs : freeze_card_commit(p)
    \/ \E p \in Procs, u \in Users, c \in RequestCardIds : unfreeze_card(p, u, c)
    \/ \E p \in Procs : unfreeze_card_commit(p)
    \/ \E p \in Procs, u \in Users, c \in RequestCardIds : cancel_card(p, u, c)
    \/ \E p \in Procs : cancel_card_commit(p)
    \/ \E p \in MoneyProcs, m \in Amounts : create_deposit(p, "u1", 1, m)
    \/ \E p \in MoneyProcs : create_deposit_lock(p)
    \/ \E p \in MoneyProcs : create_deposit_commit(p)
    \/ \E p \in MoneyProcs, u \in Users, c \in RequestCardIds, m \in Amounts :
          create_card_payment(p, u, c, m)
    \/ \E p \in MoneyProcs : create_card_payment_lock(p)
    \/ \E p \in MoneyProcs : create_card_payment_commit(p)
    \/ \E p \in Procs : freeze_account(p, "u1", 1)
    \/ \E p \in Procs : freeze_account_commit(p)
    \/ \E p \in Procs : unfreeze_account(p, "u1", 1)
    \/ \E p \in Procs : unfreeze_account_commit(p)

CreateCardSpec == Init /\ [][CreateCardNext]_vars

\* ------------------------------------------------------- service and issuing
\* Every handler of the whole service together with card creation on
\* account 1 by the session that moves no money.
FrameNext ==
    \/ \E p \in MoneyProcs, u \in Users, a \in RequestAccountIds, m \in Amounts :
          create_deposit(p, u, a, m)
    \/ \E p \in MoneyProcs : create_deposit_lock(p)
    \/ \E p \in MoneyProcs : create_deposit_commit(p)
    \/ \E p \in MoneyProcs, u \in Users, a \in RequestAccountIds, m \in Amounts :
          create_withdrawal(p, u, a, m)
    \/ \E p \in MoneyProcs : create_withdrawal_lock(p)
    \/ \E p \in MoneyProcs : create_withdrawal_commit(p)
    \/ \E p \in MoneyProcs, u \in Users, c \in RequestCardIds, m \in PaymentAmounts :
          create_card_payment(p, u, c, m)
    \/ \E p \in MoneyProcs : create_card_payment_lock(p)
    \/ \E p \in MoneyProcs : create_card_payment_commit(p)
    \/ \E p \in MoneyProcs, u \in Users, a \in RequestAccountIds,
          d \in RequestAccountIds, m \in Amounts : create_transfer(p, u, a, d, m)
    \/ \E p \in MoneyProcs : create_transfer_lock_source(p)
    \/ \E p \in MoneyProcs : create_transfer_lock_destination(p)
    \/ \E p \in MoneyProcs : create_transfer_credit(p)
    \/ \E p \in MoneyProcs : create_transfer_commit(p)
    \/ \E p \in Procs, u \in Users, a \in StatusAccountIds : freeze_account(p, u, a)
    \/ \E p \in Procs : freeze_account_commit(p)
    \/ \E p \in Procs, u \in Users, a \in StatusAccountIds : unfreeze_account(p, u, a)
    \/ \E p \in Procs : unfreeze_account_commit(p)
    \/ \E p \in Procs, u \in Users, a \in StatusAccountIds : close_account(p, u, a)
    \/ \E p \in Procs : close_account_commit(p)
    \/ \E p \in Procs, u \in Users, c \in RequestCardIds : freeze_card(p, u, c)
    \/ \E p \in Procs : freeze_card_commit(p)
    \/ \E p \in Procs, u \in Users, c \in RequestCardIds : unfreeze_card(p, u, c)
    \/ \E p \in Procs : unfreeze_card_commit(p)
    \/ \E p \in Procs, u \in Users, c \in RequestCardIds : cancel_card(p, u, c)
    \/ \E p \in Procs : cancel_card_commit(p)
    \/ \E c \in CardIds : card_expires(c)
    \/ \E p \in Procs, e \in {"IntegrityError", "Exception"} : store_failure(p, e)
    \/ \E p \in Procs : lock_timeout(p)

    \/ \E p \in Procs \ MoneyProcs, u \in Users, pin \in Pins, draws \in Draws :
          create_card(p, u, 1, pin, 0, draws)
    \/ \E p \in Procs \ MoneyProcs : create_card_commit(p)

FrameSpec == Init /\ [][FrameNext]_vars

\* ------------------------------------------------------------- principals
\* Signup by any session, and one session whose requests reach the routes
\* with any of the tokens.
AuthAccountIds == {1, 2}

AuthNext ==
    \/ \E p \in Procs, email \in Emails : signup(p, email)
    \/ \E p \in Procs : signup_commit(p)
    \/ \E p \in MoneyProcs, t \in Tokens, m \in Amounts :
          post_transactions_deposit(p, t, 1, m)
    \/ \E p \in MoneyProcs : create_deposit_lock(p)
    \/ \E p \in MoneyProcs : create_deposit_commit(p)
    \/ \E p \in MoneyProcs, t \in Tokens, d \in AuthAccountIds, m \in Amounts :
          post_transfers(p, t, 1, d, m)
    \/ \E p \in MoneyProcs : create_transfer_lock_source(p)
    \/ \E p \in MoneyProcs : create_transfer_lock_destination(p)
    \/ \E p \in MoneyProcs : create_transfer_credit(p)
    \/ \E p \in MoneyProcs : create_transfer_commit(p)
    \/ \E p \in MoneyProcs, t \in Tokens : patch_accounts_freeze(p, t, 1)
    \/ \E p \in MoneyProcs : freeze_account_commit(p)
    \/ \E p \in MoneyProcs, t \in Tokens : patch_accounts_unfreeze(p, t, 1)
    \/ \E p \in MoneyProcs : unfreeze_account_commit(p)
    \/ \E p \in MoneyProcs, t \in Tokens, pin \in Pins, draws \in Draws :
          post_cards(p, t, 1, pin, 0, draws)
    \/ \E p \in MoneyProcs : create_card_commit(p)
    \/ \E p \in MoneyProcs, t \in Tokens, c \in RequestCardIds : get_cards_id(p, t, c)
    \/ \E p \in MoneyProcs, t \in Tokens, c \in RequestCardIds : patch_cards_freeze(p, t, c)
    \/ \E p \in MoneyProcs : freeze_card_commit(p)
    \/ \E p \in MoneyProcs, t \in Tokens, c \in RequestCardIds : delete_cards_id(p, t, c)
    \/ \E p \in MoneyProcs : cancel_card_commit(p)

AuthSpec == Init /\ [][AuthNext]_vars

\* ------------------------------------------------------------ one session
\* The ledger and account handlers serving one request at a time: every
\* request of Next, issued by a single session.
OneProc == "r1"

SequentialNext ==
    \/ \E u \in Users, a \in RequestAccountIds, m \in Amounts :
          create_deposit(OneProc, u, a, m)
    \/ create_deposit_lock(OneProc)
    \/ create_deposit_commit(OneProc)
    \/ \E u \in Users, a \in RequestAccountIds, m \in Amounts :
          create_withdrawal(OneProc, u, a, m)
    \/ create_withdrawal_lock(OneProc)
    \/ create_withdrawal_commit(OneProc)
    \/ \E u \in Users, c \in RequestCardIds, m \in PaymentAmounts :
          create_card_payment(OneProc, u, c, m)
    \/ create_card_payment_lock(OneProc)
    \/ create_card_payment_commit(OneProc)
    \/ \E u \in Users, a \in RequestAccountIds, d \in RequestAccountIds, m \in Amounts :
          create_transfer(OneProc, u, a, d, m)
    \/ create_transfer_lock_source(OneProc)
    \/ create_transfer_lock_destination(OneProc)
    \/ create_transfer_credit(OneProc)
    \/ create_transfer_commit(OneProc)
    \/ \E u \in Users, a \in RequestAccountIds : freeze_account(OneProc, u, a)
    \/ freeze_account_commit(OneProc)
    \/ \E u \in Users, a \in RequestAccountIds : unfreeze_account(OneProc, u, a)
    \/ unfreeze_account_commit(OneProc)
    \/ \E u \in Users, a \in RequestAccountIds : close_account(OneProc, u, a)
    \/ close_account_commit(OneProc)
    \/ \E e \in {"IntegrityError", "Exception"} : store_failure(OneProc, e)

SequentialSpec == Init /\ [][SequentialNext]_vars

\* --------------------------------------------------------------- round trip
\* One session deposits an amount on an account and then withdraws the same
\* amount from it, while a second session works on another account.  The
\* ledger starts from a state in which account 2 already holds a committed
\* deposit of MaxAmount.
RoundTripAccountIds == {1, 2}
BystanderAccountId == 3

PriorRows ==
    {Transaction(uuid4(<<2, "CREDIT", MaxAmount, "DEPOSIT", NoRef, 0>>, {}),
                 2, "CREDIT", MaxAmount, "DEPOSIT", NoRef, NoRef, 0)}

PriorBalance(a) == IF \E t \in PriorRows : t.account_id = a THEN MaxAmount ELSE 0

RoundTripInit ==
    /\ accounts = [a \in AccountIds |->
                     [Account(IF a = 2 THEN "u2" ELSE "u1")
                         EXCEPT !.balance = PriorBalance(a)]]
    /\ transactions = PriorRows
    /\ transfers = {}
    /\ users = InitUsers
    /\ cards = [c \in CardIds |-> Card(1, "ACTIVE", FALSE, 1, c, generate_cvv(c))]
    /\ lock = [a \in AccountIds |-> NoProc]
    /\ pc = [p \in Procs |-> "idle"]
    /\ req = [p \in Procs |-> NoRequest]
    /\ mem = [p \in Procs |-> NoMem]
    /\ pend = [p \in Procs |-> {}]
    /\ res = NoResponses

RoundTripNext ==
    \/ \E a \in RoundTripAccountIds, m \in Amounts :
          /\ \A t \in transactions \ PriorRows : t.account_id = BystanderAccountId
          /\ create_deposit("r1", accounts[a].user_id, a, m)
    \/ create_deposit_lock("r1")
    \/ create_deposit_commit("r1")
    \/ \E t \in transactions \ PriorRows :
          /\ t.account_id \in RoundTripAccountIds
          /\ \A t2 \in transactions : t2.type = "CREDIT"
          /\ create_withdrawal("r1", accounts[t.account_id].user_id, t.account_id, t.amount)
    \/ create_withdrawal_lock("r1")
    \/ create_withdrawal_commit("r1")
    \/ \E m \in Amounts : create_deposit("r2", "u1", BystanderAccountId, m)
    \/ create_deposit_lock("r2")
    \/ create_deposit_commit("r2")
    \/ \E u \in Users : freeze_account("r2", u, BystanderAccountId)
    \/ freeze_account_commit("r2")
    \/ \E u \in Users : unfreeze_account("r2", u, BystanderAccountId)
    \/ unfreeze_account_commit("r2")
    \/ \E p \in Procs, e \in {"IntegrityError", "Exception"} : store_failure(p, e)

RoundTripSpec == RoundTripInit /\ [][RoundTripNext]_vars

\* ================================================================= claims
RECURSIVE SumAmounts(_)
SumAmounts(S) ==
    IF S = {} THEN 0
    ELSE LET t == CHOOSE x \in S : TRUE IN t.amount + SumAmounts(S \ {t})

Credits(a) == {t \in transactions : t.account_id = a /\ t.type = "CREDIT"}

Debits(a) == {t \in transactions : t.account_id = a /\ t.type = "DEBIT"}

\* Program points at which a debit has passed its funds check and holds the
\* lock of the debited account.
DebitCommitPoints ==
    {"withdrawal_commit", "card_payment_commit", "transfer_credit", "transfer_commit"}

\* Program points at which a debit is about to run its funds check.
DebitCheckPoints ==
    {"withdrawal_lock", "card_payment_lock", "transfer_lock_destination"}

InsufficientFundsResponse == HTTPException(400, "Insufficient funds")

\* The checks that precede the funds check of the debit of p all pass.
DebitReachesFundsCheck(p) ==
    /\ pc[p] \in DebitCheckPoints
    /\ ~Blocked(p)
    /\ accounts[req[p].account_id].user_id = req[p].user
    /\ accounts[req[p].account_id].status = "ACTIVE"
    /\ pc[p] = "transfer_lock_destination" =>
          /\ req[p].destination_account_id \in AccountIds
          /\ accounts[req[p].destination_account_id].status = "ACTIVE"

\* p is the handler that takes this step.
Steps(p) == pc'[p] # pc[p]

\* C1: in every committed state each account's balance equals the sum of
\* its committed CREDIT amounts minus the sum of its committed DEBIT amounts.
C1_BalanceIsLedgerSum ==
    \A a \in AccountIds :
        accounts[a].balance = SumAmounts(Credits(a)) - SumAmounts(Debits(a))

\* An account that carries a committed credit and a committed debit, one of
\* them the leg of a committed transfer.
C1_Witness ==
    /\ transfers # {}
    /\ \E a \in AccountIds : Credits(a) # {} /\ Debits(a) # {}

\* C2: in every committed state every account has
\* balance + overdraft_limit >= 0.
C2_NeverBelowOverdraft ==
    \A a \in AccountIds : accounts[a].balance + accounts[a].overdraft_limit >= 0

\* A committed debit has taken an account exactly down to its limit.
C2_Witness ==
    \E a \in AccountIds :
        /\ Debits(a) # {}
        /\ accounts[a].balance + accounts[a].overdraft_limit = 0

\* C3: a debit of amount m on an account with balance b and overdraft limit
\* L passes the funds check exactly when b - m + L >= 0 (its DEBIT row is then
\* flushed); otherwise the request fails with "Insufficient funds" and the
\* balances and the transaction table are unchanged.
C3_DebitAcceptedIffFunds ==
    [][\A p \in Procs :
         (DebitReachesFundsCheck(p) /\ Steps(p)) =>
            LET a == req[p].account_id
                m == req[p].amount
            IN  IF accounts[a].balance - m + accounts[a].overdraft_limit >= 0
                THEN /\ res'[p] = NoResponse
                     /\ pc'[p] \in DebitCommitPoints
                     /\ \E t \in pend'[p] :
                           t.type = "DEBIT" /\ t.account_id = a /\ t.amount = m
                ELSE /\ res'[p] = InsufficientFundsResponse
                     /\ accounts' = accounts
                     /\ transactions' = transactions
                     /\ transfers' = transfers]_vars

\* A debit has just been refused for lack of funds.
C3_Witness ==
    \E p \in Procs : res[p] = InsufficientFundsResponse

\* C4: of the debits issued concurrently on one account, one that commits
\* takes exactly its amount off the committed balance and leaves it at or
\* above -overdraft_limit; one that is refused for lack of funds is refused
\* because the balance committed at that moment does not cover it.
C4_ConcurrentDebitsSerialize ==
    [][\A p \in Procs :
         LET a == req[p].account_id
             m == req[p].amount
         IN  /\ (pc[p] \in DebitCommitPoints /\ res'[p] = Response(201)) =>
                   /\ accounts'[a].balance = accounts[a].balance - m
                   /\ accounts'[a].balance + accounts'[a].overdraft_limit >= 0
             /\ (pc[p] \in DebitCheckPoints /\ res'[p] = InsufficientFundsResponse) =>
                   /\ accounts[a].balance - m + accounts[a].overdraft_limit < 0
                   /\ accounts' = accounts
                   /\ transactions' = transactions]_vars

\* Two debits on the same account, each within the funds and both together
\* beyond them: one holds the lock past its check, the other waits for it.
C4_Witness ==
    \E p, q \in Procs :
        /\ p # q
        /\ pc[p] \in DebitCommitPoints
        /\ pc[q] \in DebitCheckPoints
        /\ pc[q] # "transfer_lock_destination"
        /\ req[q].account_id = req[p].account_id
        /\ req[q].user = accounts[req[q].account_id].user_id
        /\ Blocked(q)
        /\ LET b == accounts[req[p].account_id].balance
                    + accounts[req[p].account_id].overdraft_limit
           IN  /\ req[p].amount <= b
               /\ req[q].amount <= b
               /\ req[p].amount + req[q].amount > b

C6_NoCircularWait ==
    ~ \E p, q \in Procs :
          /\ p # q
          /\ Blocked(p) /\ lock[WaitsFor(p)] = q
          /\ Blocked(q) /\ lock[WaitsFor(q)] = p

\* C7: a transfer locks its two accounts in identifier order: while it holds
\* one lock and has yet to take the other, the one it holds has the smaller
\* identifier.
C7_LocksInIdentifierOrder ==
    \A p \in Procs :
        pc[p] = "transfer_lock_destination" =>
            req[p].account_id < req[p].destination_account_id

\* C8: a transfer of amount m from an ACTIVE source of the caller that covers
\* m to another ACTIVE account, whoever owns it, is not refused; when it
\* commits, the source balance falls by m, the destination balance rises by
\* m, no other account row changes, exactly one DEBIT row on the source and
\* one CREDIT row on the destination are added, both of amount m and with the
\* same reference, and exactly one Transfer row is added that names them.
C8_TransferEffect ==
    [][\A p \in Procs :
         LET a == req[p].account_id
             d == req[p].destination_account_id
             m == req[p].amount
             newT == transactions' \ transactions
             newX == transfers' \ transfers
         IN  /\ (pc[p] = "transfer_lock_source" /\ ~Blocked(p) /\ Steps(p)
                 /\ accounts[a].user_id = req[p].user
                 /\ accounts[a].status = "ACTIVE") =>
                   pc'[p] = "transfer_lock_destination"
             /\ (pc[p] = "transfer_lock_destination" /\ DebitReachesFundsCheck(p)
                 /\ ~InsufficientFunds(accounts[a].balance, m) /\ Steps(p)) =>
                   pc'[p] = "transfer_credit"
             /\ (pc[p] = "transfer_commit" /\ res'[p] = Response(201)) =>
                   /\ accounts'[a] = [accounts[a] EXCEPT !.balance = @ - m]
                   /\ accounts'[d] = [accounts[d] EXCEPT !.balance = @ + m]
                   /\ \A o \in AccountIds \ {a, d} : accounts'[o] = accounts[o]
                   /\ transactions \subseteq transactions'
                   /\ transfers \subseteq transfers'
                   /\ Cardinality(newT) = 2
                   /\ Cardinality(newX) = 1
                   /\ \E dt, ct \in newT, x \in newX :
                         /\ dt.type = "DEBIT" /\ dt.account_id = a /\ dt.amount = m
                         /\ ct.type = "CREDIT" /\ ct.account_id = d /\ ct.amount = m
                         /\ dt.reference = ct.reference
                         /\ dt.reference # NoRef
                         /\ x.source_transaction_id = dt.id
                         /\ x.destination_transaction_id = ct.id
                         /\ x.source_account_id = a
                         /\ x.destination_account_id = d
                         /\ x.amount = m]_vars

\* A committed transfer into an account of another user.
C8_Witness ==
    \E x \in transfers :
        accounts[x.source_account_id].user_id
            # accounts[x.destination_account_id].user_id

\* C9: every Transfer row names two committed transactions: a DEBIT on its
\* source account and a CREDIT on its destination account, both of the
\* transfer's amount.
C9_TransferHasBothLegs ==
    \A x \in transfers :
        /\ \E t \in transactions :
              /\ t.id = x.source_transaction_id
              /\ t.type = "DEBIT"
              /\ t.account_id = x.source_account_id
              /\ t.amount = x.amount
        /\ \E t \in transactions :
              /\ t.id = x.destination_transaction_id
              /\ t.type = "CREDIT"
              /\ t.account_id = x.destination_account_id
              /\ t.amount = x.amount

\* A Transfer row is committed, with the two legs it produced.
C9_Witness ==
    \E x \in transfers :
        Cardinality({t \in transactions : t.transfer_id = x.id}) = 2

\* C10: an account's status changes only along ACTIVE -> FROZEN,
\* FROZEN -> ACTIVE and ACTIVE -> CLOSED; a CLOSED account keeps its status.
C10_LegalStatusEdges ==
    [][\A a \in AccountIds :
         accounts'[a].status # accounts[a].status =>
            <<accounts[a].status, accounts'[a].status>> \in
                {<<"ACTIVE", "FROZEN">>, <<"FROZEN", "ACTIVE">>,
                 <<"ACTIVE", "CLOSED">>}]_vars

\* C11: in every committed state, an account whose status is CLOSED has
\* balance exactly 0, also when close runs together with deposits or
\* incoming transfers on the account.
C11_ClosedHasZeroBalance ==
    \A a \in AccountIds : accounts[a].status = "CLOSED" => accounts[a].balance = 0

\* Program points of an account status change between its read and its commit.
StatusPoints == {"freeze_account", "unfreeze_account", "close_account"}

\* The status each account status change writes.
StatusWritten(op) ==
    CASE op = "freeze_account" -> "FROZEN"
      [] op = "unfreeze_account" -> "ACTIVE"
      [] op = "close_account" -> "CLOSED"

\* The call of p is refused as InvalidState and no account row changes.
RefusedInvalidState(p) ==
    /\ res'[p].status_code = 400
    /\ pc'[p] = "idle"
    /\ accounts' = accounts

\* The call of p passed its checks and goes on to write status st on a.
Accepted(p, op, a) ==
    /\ res'[p] = NoResponse
    /\ pc'[p] = op
    /\ req'[p].account_id = a
    /\ mem'[p].status = StatusWritten(op)
    /\ accounts' = accounts

\* C12: on an account of the caller, freeze is refused (InvalidState) when
\* the status it reads is FROZEN or CLOSED, unfreeze when it is not FROZEN,
\* close when it is CLOSED or the balance is not 0; a call that is not
\* refused writes FROZEN, ACTIVE or CLOSED respectively when it commits, and a
\* call that fails leaves every account row unchanged.
C12_StatusCallContract ==
    [][\A p \in Procs :
         /\ \A u \in Users, a \in AccountIds :
               OwnedAccount(u, a) =>
                  /\ freeze_account(p, u, a) =>
                        IF accounts[a].status \in {"FROZEN", "CLOSED"}
                        THEN RefusedInvalidState(p)
                        ELSE Accepted(p, "freeze_account", a)
                  /\ unfreeze_account(p, u, a) =>
                        IF accounts[a].status # "FROZEN"
                        THEN RefusedInvalidState(p)
                        ELSE Accepted(p, "unfreeze_account", a)
                  /\ close_account(p, u, a) =>
                        IF accounts[a].status = "CLOSED" \/ accounts[a].balance # 0
                        THEN RefusedInvalidState(p)
                        ELSE Accepted(p, "close_account", a)
         /\ (pc[p] \in StatusPoints /\ Steps(p)) =>
               IF res'[p] = Response(200)
               THEN accounts' = [accounts EXCEPT
                                    ![req[p].account_id].status = StatusWritten(pc[p])]
               ELSE accounts' = accounts]_vars

\* A close has just been refused on an account that holds money.
C12_Witness ==
    /\ \E p \in Procs :
          res[p] = HTTPException(400, "Cannot close account with non-zero balance")
    /\ \E a \in AccountIds : accounts[a].balance # 0

\* The responses to a money movement on an account that is not ACTIVE.
NotActiveResponses ==
    {HTTPException(400, "Account is not active"),
     HTTPException(400, "Source account is not active"),
     HTTPException(400, "Destination account is not active")}

\* The step leaves the four tables as they are.
TablesUnchanged ==
    /\ accounts' = accounts
    /\ transactions' = transactions
    /\ transfers' = transfers
    /\ cards' = cards

\* C13: a deposit, withdrawal or card payment that finds its account FROZEN
\* or CLOSED, and a transfer that finds its source or its destination FROZEN
\* or CLOSED, is refused as InvalidState ("... not active") and leaves every
\* balance and the transaction table unchanged.
C13_InactiveAccountRefused ==
    [][\A p \in Procs :
         LET a == req[p].account_id
             d == req[p].destination_account_id
         IN  /\ (/\ pc[p] \in {"deposit_lock", "withdrawal_lock",
                               "transfer_lock_source"}
                 /\ ~Blocked(p) /\ Steps(p)
                 /\ accounts[a].user_id = req[p].user
                 /\ accounts[a].status \in {"FROZEN", "CLOSED"}) =>
                   (res'[p] \in NotActiveResponses /\ pc'[p] = "idle" /\ TablesUnchanged)
             /\ (/\ pc[p] = "card_payment_lock"
                 /\ ~Blocked(p) /\ Steps(p)
                 /\ accounts[a].status \in {"FROZEN", "CLOSED"}) =>
                   (res'[p] \in NotActiveResponses /\ pc'[p] = "idle" /\ TablesUnchanged)
             /\ (/\ pc[p] = "transfer_lock_destination"
                 /\ d \in AccountIds
                 /\ ~Blocked(p) /\ Steps(p)
                 /\ accounts[d].status \in {"FROZEN", "CLOSED"}) =>
                   (res'[p] \in NotActiveResponses /\ pc'[p] = "idle" /\ TablesUnchanged)]_vars

\* A transfer has just been refused because its destination is not ACTIVE,
\* on a ledger that already holds money.
C13_Witness ==
    /\ \E p \in Procs :
          res[p] = HTTPException(400, "Destination account is not active")
    /\ \E a \in AccountIds : accounts[a].status \in {"FROZEN", "CLOSED"}
    /\ transactions # {}

\* The call of p is refused as Forbidden and changes no table.
RefusedForbidden(p) ==
    /\ res'[p].status_code = 403
    /\ pc'[p] = "idle"
    /\ TablesUnchanged

\* C14: deposit, withdraw, transfer (as source), freeze, unfreeze and close
\* on an existing account that the caller does not own are refused as
\* Forbidden (403, not the 404 of a missing account) and change no state.
C14_NotOwnedIsForbidden ==
    [][\A p \in Procs :
         /\ (/\ pc[p] \in {"deposit_lock", "withdrawal_lock", "transfer_lock_source"}
             /\ ~Blocked(p) /\ Steps(p)
             /\ accounts[req[p].account_id].user_id # req[p].user) =>
               RefusedForbidden(p)
         /\ \A u \in Users, a \in AccountIds :
               (/\ accounts[a].user_id # u
                /\ \/ freeze_account(p, u, a)
                   \/ unfreeze_account(p, u, a)
                   \/ close_account(p, u, a)) =>
                  RefusedForbidden(p)]_vars

\* The four card preconditions of a payment of m by u with card c.
CardChecksPass(u, c, m) ==
    /\ OwnedCard(u, c)
    /\ cards[c].status \notin {"FROZEN", "CANCELLED"}
    /\ ~cards[c].expired
    /\ cards[c].spending_limit = 0 \/ m <= cards[c].spending_limit

\* C15: a card payment of m > 0 passes its checks exactly when the card
\* exists on an account of the caller, is neither FROZEN nor CANCELLED, is not
\* expired, has no spending limit or m <= limit, the owning account is ACTIVE
\* and balance - m + overdraft_limit >= 0; otherwise it is refused and no
\* table changes.  When it commits it adds exactly one DEBIT row of category
\* CARD_PAYMENT and amount m that references the card, and takes m off the
\* balance of the card's account.
C15_CardPaymentSucceedsIff ==
    [][\A p \in Procs :
         LET a == req[p].account_id
             m == req[p].amount
             newT == transactions' \ transactions
         IN  /\ \A u \in Users, c \in RequestCardIds, n \in PaymentAmounts \ {0} :
                   create_card_payment(p, u, c, n) =>
                      IF CardChecksPass(u, c, n)
                      THEN /\ res'[p] = NoResponse
                           /\ pc'[p] = "card_payment_lock"
                           /\ req'[p].card_id = c
                           /\ req'[p].amount = n
                           /\ req'[p].account_id = cards[c].account_id
                           /\ TablesUnchanged
                      ELSE /\ res'[p].status_code \in {400, 404}
                           /\ pc'[p] = "idle"
                           /\ TablesUnchanged
             /\ (pc[p] = "card_payment_lock" /\ ~Blocked(p) /\ Steps(p)) =>
                   IF /\ accounts[a].status = "ACTIVE"
                      /\ accounts[a].balance - m + accounts[a].overdraft_limit >= 0
                   THEN /\ res'[p] = NoResponse
                        /\ pc'[p] = "card_payment_commit"
                        /\ TablesUnchanged
                   ELSE /\ res'[p].status_code = 400
                        /\ pc'[p] = "idle"
                        /\ TablesUnchanged
             /\ (pc[p] = "card_payment_commit" /\ Steps(p)) =>
                   IF res'[p] = Response(201)
                   THEN /\ accounts' = [accounts EXCEPT ![a].balance = @ - m]
                        /\ transactions \subseteq transactions'
                        /\ Cardinality(newT) = 1
                        /\ \A t \in newT :
                              /\ t.type = "DEBIT"
                              /\ t.category = "CARD_PAYMENT"
                              /\ t.amount = m
                              /\ t.account_id = a
                              /\ t.card_id = req[p].card_id
                              /\ cards[t.card_id].account_id = a
                        /\ transfers' = transfers
                        /\ cards' = cards
                   ELSE TablesUnchanged
             /\ (req[p].op = "card_payment" /\ res'[p] = Response(201)) =>
                   pc[p] = "card_payment_commit"]_vars

\* A committed payment above MaxAmount, made with a card that has no limit.
C15_Witness ==
    \E t \in transactions :
        /\ t.category = "CARD_PAYMENT"
        /\ t.amount > MaxAmount
        /\ cards[t.card_id].spending_limit = 0

\* The failure the card checks report for a payment of m by u with card c:
\* the first violated precondition in the order NotFound, InvalidState
\* (status), InvalidState (expiry), LimitExceeded; NoResponse when all pass.
FirstCardFailure(u, c, m) ==
    IF ~OwnedCard(u, c) THEN {CardNotFound}
    ELSE IF cards[c].status \in {"FROZEN", "CANCELLED"}
    THEN {HTTPException(400, "Card is frozen"), HTTPException(400, "Card is cancelled")}
    ELSE IF cards[c].expired THEN {HTTPException(400, "Card has expired")}
    ELSE IF cards[c].spending_limit # 0 /\ m > cards[c].spending_limit
    THEN {HTTPException(400, "Payment exceeds card spending limit")}
    ELSE {NoResponse}

\* C16: a card payment that violates several preconditions reports the first
\* violated one in the order card missing or not the caller's, card FROZEN or
\* CANCELLED, card expired, amount above the limit, account not ACTIVE,
\* insufficient funds; and a payment takes the account lock only once the
\* first four have passed.
C16_FirstViolationReported ==
    [][\A p \in Procs :
         /\ \A u \in Users, c \in RequestCardIds, m \in PaymentAmounts \ {0} :
               create_card_payment(p, u, c, m) =>
                  /\ res'[p] \in FirstCardFailure(u, c, m)
                  /\ pc'[p] = "card_payment_lock" <=> CardChecksPass(u, c, m)
                  /\ lock' = lock
         /\ (pc[p] = "card_payment_lock" /\ ~Blocked(p) /\ Steps(p)) =>
               LET a == req[p].account_id IN
               IF accounts[a].status # "ACTIVE"
               THEN res'[p] = HTTPException(400, "Account is not active")
               ELSE IF accounts[a].balance - req[p].amount
                          + accounts[a].overdraft_limit < 0
               THEN res'[p] = InsufficientFundsResponse
               ELSE res'[p] = NoResponse
         /\ (req[p].op = "card_payment"
             /\ \E a \in AccountIds : lock'[a] = p /\ lock[a] # p) =>
               pc[p] = "card_payment_lock"]_vars

\* A payment has just been refused for its frozen card, while the card is
\* also expired, its account is not ACTIVE and holds no funds.
C16_Witness ==
    /\ \E p \in Procs : res[p] = HTTPException(400, "Card is frozen")
    /\ \E c \in CardIds :
          /\ cards[c].status = "FROZEN"
          /\ cards[c].expired
          /\ accounts[cards[c].account_id].status # "ACTIVE"
          /\ accounts[cards[c].account_id].balance = 0

\* C17: a card's status changes only along ACTIVE -> FROZEN, FROZEN -> ACTIVE,
\* ACTIVE -> CANCELLED and FROZEN -> CANCELLED; a CANCELLED card keeps its
\* status.
C17_LegalCardStatusEdges ==
    [][\A c \in CardIds :
         cards'[c].status # cards[c].status =>
            <<cards[c].status, cards'[c].status>> \in
                {<<"ACTIVE", "FROZEN">>, <<"FROZEN", "ACTIVE">>,
                 <<"ACTIVE", "CANCELLED">>, <<"FROZEN", "CANCELLED">>}]_vars

\* The call of p on a cancelled card is refused as InvalidState and changes
\* no table.
RefusedCancelled(p) ==
    /\ res'[p].status_code = 400
    /\ pc'[p] = "idle"
    /\ TablesUnchanged

\* C18: freeze, unfreeze, cancel and pay on a card of the caller that is
\* CANCELLED are refused as InvalidState and change neither the card nor any
\* account, transaction or transfer.
C18_CancelledCardRefusesAll ==
    [][\A p \in Procs, u \in Users, c \in CardIds :
         (OwnedCard(u, c) /\ cards[c].status = "CANCELLED") =>
            /\ freeze_card(p, u, c) => RefusedCancelled(p)
            /\ unfreeze_card(p, u, c) => RefusedCancelled(p)
            /\ cancel_card(p, u, c) => RefusedCancelled(p)
            /\ \A m \in PaymentAmounts \ {0} :
                  create_card_payment(p, u, c, m) =>
                     /\ RefusedCancelled(p)
                     /\ res'[p] = HTTPException(400, "Card is cancelled")]_vars

\* A freeze has just been refused on a cancelled card whose account holds
\* money.
C18_Witness ==
    /\ \E p \in Procs : res[p] = HTTPException(400, "Cannot freeze a cancelled card")
    /\ \E c \in CardIds :
          /\ cards[c].status = "CANCELLED"
          /\ accounts[cards[c].account_id].balance > 0

\* r reports an error to the caller.
IsError(r) == r.status_code \notin {0, 200, 201}

InternalCode(op) == ExceptionResponse(op, "Exception").status_code

\* C20: a deposit, withdrawal, card payment or transfer that waits for an
\* account lock beyond the bounded wait ends with a Busy error whose result
\* code differs from that of Internal, and leaves no partial state.
C20_LockTimeoutIsBusy ==
    [][\A p \in Procs :
         (Blocked(p) /\ pc[p] \notin Writing /\ Steps(p)) =>
            /\ IsError(res'[p])
            /\ res'[p].status_code # InternalCode(req[p].op)
            /\ TablesUnchanged
            /\ pend'[p] = {}
            /\ \A a \in AccountIds : lock'[a] # p]_vars

\* The error kind of the taxonomy that a failure response reports.
ErrorKind(r) ==
    CASE r.status_code = 404 -> "NotFound"
      [] r.status_code = 403 -> "Forbidden"
      [] r.detail \in {"Amount must be positive", "Accounts must be different"} ->
            "InvalidArgument"
      [] r.detail = "Insufficient funds" -> "InsufficientFunds"
      [] r.detail = "Payment exceeds card spending limit" -> "LimitExceeded"
      [] r.detail = "Database integrity error" -> "Conflict"
      [] r.detail \in {FailedDetail(op, "OperationalError") :
                          op \in {"deposit", "withdrawal", "card_payment", "transfer"}} ->
            "Busy"
      [] r.status_code = 500 -> "Internal"
      [] OTHER -> "InvalidState"

\* C21: the result code of a failure determines its error kind: whenever two
\* failures are reported one after the other with the same result code, they
\* are of the same kind (NotFound, Forbidden, InvalidArgument, InvalidState,
\* InsufficientFunds, LimitExceeded, Busy, Conflict or Internal).
C21_CodeDeterminesKind ==
    [][\A p, q \in Procs :
         (/\ IsError(res[q])
          /\ IsError(res'[p])
          /\ res[q].status_code = res'[p].status_code) =>
            ErrorKind(res[q]) = ErrorKind(res'[p])]_vars

\* The step refuses p's request with r before it touches the store: no lock
\* is taken, no row is flushed and no table changes.
RefusedUntouched(p, r) ==
    /\ res'[p] = r
    /\ pc'[p] = "idle"
    /\ TablesUnchanged
    /\ lock' = lock
    /\ pend' = pend

\* The step is the first step of a request of p, and ends it.
BeginEnds(p) == pc[p] = "idle" /\ pc'[p] = "idle" /\ res'[p] # NoResponse

\* The step is the first step of a request of p, and the request goes on.
BeginProceeds(p) == pc[p] = "idle" /\ pc'[p] # "idle"

\* C22: a deposit, withdrawal, card payment or transfer with amount <= 0, and
\* a transfer from an account to itself, fails with InvalidArgument before
\* any lock is taken and changes no state: no such request gets past its
\* first step, and that step answers 400 and touches nothing.  Every
\* transaction row, flushed or committed, has amount > 0.
C22_InvalidArgumentRefused ==
    [][/\ \A p \in Procs :
             BeginProceeds(p) =>
                /\ req'[p].amount > 0 \/ req'[p].op \notin {"deposit", "withdrawal",
                                                         "card_payment", "transfer"}
                /\ req'[p].op = "transfer" =>
                      req'[p].account_id # req'[p].destination_account_id
       /\ \A p \in Procs :
             BeginEnds(p) =>
                \A u \in Users, m \in Amounts :
                   /\ \A a \in RequestAccountIds :
                         (m <= 0 /\ (create_deposit(p, u, a, m)
                                       \/ create_withdrawal(p, u, a, m))) =>
                            RefusedUntouched(p, HTTPException(400, "Amount must be positive"))
                   /\ \A c \in RequestCardIds :
                         (m <= 0 /\ create_card_payment(p, u, c, m)) =>
                            RefusedUntouched(p, HTTPException(400, "Amount must be positive"))
                   /\ \A a \in RequestAccountIds, d \in RequestAccountIds :
                         /\ (m <= 0 /\ create_transfer(p, u, a, d, m)) =>
                               RefusedUntouched(p, HTTPException(400, "Amount must be positive"))
                         /\ (m > 0 /\ a = d /\ create_transfer(p, u, a, d, m)) =>
                               RefusedUntouched(p, HTTPException(400, "Accounts must be different"))
       /\ \A t \in transactions' : t.amount > 0
       /\ \A p \in Procs : \A t \in pend'[p] : t.amount > 0
       /\ \A x \in transfers' : x.amount > 0]_vars

\* A same-account transfer has just been refused on a ledger that holds
\* committed rows.
C22_Witness ==
    /\ \E p \in Procs : res[p] = HTTPException(400, "Accounts must be different")
    /\ transactions # {}

\* C23: a committed transaction row is never modified or deleted: every step
\* of every handler keeps each committed row, with its account, direction,
\* amount, category and references, in the transaction table.
C23_CommittedRowsImmutable ==
    [][\A t \in transactions :
          \E t2 \in transactions' :
             /\ t2.id = t.id
             /\ t2.account_id = t.account_id
             /\ t2.type = t.type
             /\ t2.amount = t.amount
             /\ t2.category = t.category
             /\ t2.reference = t.reference
             /\ t2.transfer_id = t.transfer_id]_vars

\* An account with committed rows has been closed, and a later request has
\* failed.
C23_Witness ==
    /\ \E a \in AccountIds :
          /\ accounts[a].status = "CLOSED"
          /\ \E t \in transactions : t.account_id = a
    /\ \E p \in Procs : IsError(res[p])

\* The step commits exactly one new transaction row, on account a, of the
\* given direction, category and amount, moves the balance of a by delta and
\* changes nothing else.
LedgerEffect(a, type, category, amount, delta) ==
    /\ accounts' = [accounts EXCEPT ![a].balance = accounts[a].balance + delta]
    /\ transactions \subseteq transactions'
    /\ \E t \in transactions' \ transactions :
          /\ transactions' \ transactions = {t}
          /\ t.account_id = a
          /\ t.type = type
          /\ t.category = category
          /\ t.amount = amount
    /\ transfers' = transfers
    /\ cards' = cards

\* C25: a successful deposit of amount m on an ACTIVE account owned by the
\* caller increases its balance by m and adds exactly one CREDIT transaction
\* of category DEPOSIT; a successful withdrawal of m decreases its balance by
\* m and adds exactly one DEBIT transaction of category WITHDRAWAL; neither
\* changes any other account.
C25_DepositWithdrawalEffect ==
    [][\A p \in Procs :
         LET a == req[p].account_id
             m == req[p].amount
         IN  /\ (req[p].op = "deposit" /\ res'[p] = Response(201)) =>
                   /\ accounts[a].status = "ACTIVE"
                   /\ accounts[a].user_id = req[p].user
                   /\ LedgerEffect(a, "CREDIT", "DEPOSIT", m, m)
             /\ (req[p].op = "withdrawal" /\ res'[p] = Response(201)) =>
                   /\ accounts[a].status = "ACTIVE"
                   /\ accounts[a].user_id = req[p].user
                   /\ LedgerEffect(a, "DEBIT", "WITHDRAWAL", m, 0 - m)]_vars

\* A withdrawal has just succeeded on an account funded by a deposit, while
\* another account holds money.
C25_Witness ==
    /\ \E p \in Procs : res[p] = Response(201)
    /\ \E t \in transactions : t.category = "WITHDRAWAL"
    /\ \E t \in transactions : t.category = "DEPOSIT"
    /\ \E a \in AccountIds : accounts[a].balance > 0

\* The rows that the round trip has committed on account a.
RoundTripRows(a) == {t \in transactions : t.account_id = a} \ PriorRows

\* C24: on an ACTIVE account, a deposit of a valid amount A followed by a
\* withdrawal of A, with no other operation on the account in between,
\* returns the balance to exactly its prior value and adds exactly one CREDIT
\* and one DEBIT transaction of amount A: the withdrawal passes its checks,
\* and once its DEBIT row is committed the balance is the prior one.
C24_DepositWithdrawalRoundTrip ==
    [][/\ (pc["r1"] = "withdrawal_lock" /\ Steps("r1")) =>
             pc'["r1"] = "withdrawal_commit"
       /\ \A a \in RoundTripAccountIds :
             (\E t \in RoundTripRows(a)' : t.type = "DEBIT") =>
                /\ accounts'[a].balance = PriorBalance(a)
                /\ accounts'[a].status = "ACTIVE"
                /\ \E c \in RoundTripRows(a)', d \in RoundTripRows(a)' :
                      /\ RoundTripRows(a)' = {c, d}
                      /\ c.type = "CREDIT" /\ c.category = "DEPOSIT"
                      /\ d.type = "DEBIT" /\ d.category = "WITHDRAWAL"
                      /\ c.amount = d.amount
                      /\ c.amount > 0]_vars

\* The round trip has been completed on the account that held money before.
C24_Witness ==
    /\ \E t \in RoundTripRows(2) : t.type = "DEBIT"
    /\ accounts[2].balance = MaxAmount
    /\ pc["r1"] = "idle"

\* Handler p has drawn its card number and is about to insert the card.
Inserting(p) == pc[p] = "create_card_commit"

C27_CreateCardSucceedsIff ==
    [][\A p \in Procs :
         /\ BeginEnds(p) =>
               \A u \in Users, a \in CreateCardAccountIds, pin \in Pins,
                  l \in SpendingLimits, draws \in Draws :
                  create_card(p, u, a, pin, l, draws) =>
                     /\ IsError(res'[p])
                     /\ \/ a \notin AccountIds
                        \/ accounts[a].user_id # u
                        \/ accounts[a].status # "ACTIVE"
                        \/ PinRejected(pin)
                     /\ cards' = cards
         /\ (Inserting(p) /\ Steps(p)) =>
               /\ res'[p] = Response(201)
               /\ \E c \in DOMAIN cards' \ DOMAIN cards :
                     /\ DOMAIN cards' \ DOMAIN cards = {c}
                     /\ cards'[c].status = "ACTIVE"
                     /\ cards'[c].account_id = req[p].account_id
                     /\ cards'[c].card_number \in CardNumbers
               /\ \A c \in DOMAIN cards : cards'[c] = cards[c]]_vars

ValidPrincipal(t) ==
    /\ t.present
    /\ t.signed
    /\ ~t.expired
    /\ \E u \in users : u.id = t.sub

\* The step is the first step of a request of p.
Begins(p) == pc[p] = "idle" /\ (pc'[p] # "idle" \/ res'[p] # NoResponse)

\* The step answers p with 401 and leaves every table, lock and pending row
\* as it was.
Rejected401(p) ==
    /\ res'[p].status_code = 401
    /\ RefusedUntouched(p, res'[p])
    /\ users' = users

EmailsUnique(rows) == \A u1, u2 \in rows : u1 # u2 => u1.email # u2.email

\* C30: a signup whose email is registered fails with 400 "Email already
\* registered" and adds no user, whether the handler finds the email at its
\* check or at its insert; a signup whose email is still new at its insert
\* adds exactly one user, with that email, and answers 200; and no two users
\* ever share an email, concurrent signups with the same email included.
C30_SignupContract ==
    [][/\ \A p \in Procs :
             Begins(p) =>
                \A email \in Emails :
                   (signup(p, email) /\ EmailRegistered(email)) =>
                      /\ res'[p] = HTTPException(400, "Email already registered")
                      /\ users' = users
       /\ \A p \in Procs :
             (pc[p] = "signup_commit" /\ pc'[p] = "idle") =>
                IF EmailRegistered(req[p].email)
                THEN /\ res'[p] = HTTPException(400, "Email already registered")
                     /\ users' = users
                ELSE /\ \E u \in users' \ users :
                           /\ users' = users \cup {u}
                           /\ u.email = req[p].email
                     /\ Cardinality(users') = Cardinality(users) + 1
                     /\ res'[p] = Response(200)
       /\ EmailsUnique(users')]_vars

\* The accounts whose rows the request of p has read FOR UPDATE and not yet
\* committed or rolled back, as the position of its handler tells.
LockedBy(p) ==
    CASE pc[p] \in {"deposit_commit", "withdrawal_commit", "card_payment_commit",
                    "transfer_lock_destination"} -> {req[p].account_id}
      [] pc[p] \in {"transfer_credit", "transfer_commit"} ->
            {req[p].account_id, req[p].destination_account_id}
      [] OTHER -> {}

\* C31: every write of an account's balance is made by a request that holds
\* the account's row lock in its own uncommitted unit: the step that changes
\* the balance of an account is the commit of a request that read the row
\* FOR UPDATE and still holds its lock; a request holds the lock of every
\* row it read FOR UPDATE until its unit ends; and no two requests in flight
\* hold the lock of the same account.
C31_BalanceWrittenUnderLock ==
    [][/\ \A a \in AccountIds :
             accounts'[a].balance # accounts[a].balance =>
                \E p \in Procs :
                   /\ a \in LockedBy(p)
                   /\ lock[a] = p
                   /\ pend[p] # {}
                   /\ pc'[p] = "idle"
                   /\ res'[p] = Response(201)
       /\ \A p \in Procs : \A a \in LockedBy(p) : lock[a] = p
       /\ \A p, q \in Procs :
             p # q => LockedBy(p) \cap LockedBy(q) = {}]_vars

\* A request has just committed a balance write, and a withdrawal of the
\* other session is about to read a row FOR UPDATE whose balance a deposit
\* wrote.
C31_Witness ==
    \E p, q \in Procs :
        /\ p # q
        /\ res[p] = Response(201)
        /\ pc[q] = "withdrawal_lock"
        /\ accounts[req[q].account_id].balance > 0
        /\ \E t \in transactions : t.account_id = req[q].account_id

\* Program points at which a money request commits.
MoneyCommitPoints ==
    {"deposit_commit", "withdrawal_commit", "card_payment_commit", "transfer_commit"}

\* The request of p, run alone and in one piece on the committed tables,
\* would be accepted.
SequentialAccepts(p) ==
    LET a == req[p].account_id
        d == req[p].destination_account_id
        m == req[p].amount
    IN  /\ m > 0
        /\ accounts[a].user_id = req[p].user
        /\ accounts[a].status = "ACTIVE"
        /\ req[p].op # "deposit" => accounts[a].balance >= m
        /\ req[p].op = "transfer" =>
              /\ d \in AccountIds
              /\ d # a
              /\ accounts[d].status = "ACTIVE"
        /\ req[p].op = "card_payment" =>
              /\ cards[req[p].card_id].account_id = a
              /\ cards[req[p].card_id].status = "ACTIVE"

\* The account rows that the request of p, run alone and in one piece on the
\* committed tables, would leave.
SequentialAccounts(p) ==
    LET a == req[p].account_id
        d == req[p].destination_account_id
        m == req[p].amount
    IN  [x \in AccountIds |->
            IF x = a
            THEN [accounts[x] EXCEPT !.balance =
                     IF req[p].op = "deposit" THEN @ + m ELSE @ - m]
            ELSE IF req[p].op = "transfer" /\ x = d
            THEN [accounts[x] EXCEPT !.balance = @ + m]
            ELSE accounts[x]]

\* The transaction rows that run would add, without their identifiers.
SequentialRows(p) ==
    LET a == req[p].account_id
        d == req[p].destination_account_id
        m == req[p].amount
    IN  CASE req[p].op = "deposit" -> {<<a, "CREDIT", m, "DEPOSIT">>}
          [] req[p].op = "withdrawal" -> {<<a, "DEBIT", m, "WITHDRAWAL">>}
          [] req[p].op = "card_payment" -> {<<a, "DEBIT", m, "CARD_PAYMENT">>}
          [] req[p].op = "transfer" ->
                {<<a, "DEBIT", m, "TRANSFER">>, <<d, "CREDIT", m, "TRANSFER">>}
          [] OTHER -> {}

\* C32: the committed balances and transaction rows of a concurrent
\* execution of deposits, withdrawals, card payments and transfers are those
\* of running the committed requests one at a time, in the order of their
\* commits: each commit finds the committed tables in a state in which the
\* request, run alone, is accepted, and leaves the accounts and the rows
\* that run would leave.  Requests on the same account do not interleave
\* their read-check-write steps: from the locked read of a row to the end of
\* the unit that read it no other request changes the row, and the balance
\* read is still the committed one.
C32_CommitOrderSerializable ==
    [][/\ \A p \in Procs :
             (pc[p] \in MoneyCommitPoints /\ res'[p] = Response(201)) =>
                /\ SequentialAccepts(p)
                /\ accounts' = SequentialAccounts(p)
                /\ transactions \cap (transactions' \ transactions) = {}
                /\ {<<t.account_id, t.type, t.amount, t.category>> :
                       t \in transactions' \ transactions} = SequentialRows(p)
                /\ Cardinality(transactions' \ transactions)
                      = Cardinality(SequentialRows(p))
       /\ \A p \in Procs : \A a \in LockedBy(p) :
             /\ pc'[p] # "idle" => accounts'[a] = accounts[a]
             /\ a = req[p].account_id => accounts[a].balance = mem[p].source
             /\ (a = req[p].destination_account_id /\ pc[p] # "transfer_lock_destination")
                   => accounts[a].balance = mem[p].destination]_vars

\* A withdrawal is about to commit while a deposit of the other session
\* waits for the same row.
C32_Witness ==
    \E p, q \in Procs :
        /\ p # q
        /\ pc[p] = "withdrawal_commit"
        /\ pc[q] = "deposit_lock"
        /\ req[q].account_id = req[p].account_id
        /\ req[q].user = req[p].user
        /\ Blocked(q)

\* Program points whose step reads an account row FOR UPDATE.
LockPoints ==
    {"deposit_lock", "withdrawal_lock", "card_payment_lock",
     "transfer_lock_source", "transfer_lock_destination"}

\* C33: every account lock a request acquires is released exactly once, at
\* the commit or the rollback that ends the request, on every path: a lock
\* is taken only when free, by the locking step of the request that then
\* holds it; it changes hands only by being released, in the step that ends
\* its holder's request, and that step releases every lock of the request;
\* no request that has finished holds a lock.
C33_LocksReleasedAtEnd ==
    [][/\ \A a \in AccountIds :
             lock'[a] # lock[a] =>
                IF lock[a] = NoProc
                THEN \E p \in Procs :
                        /\ lock'[a] = p
                        /\ pc[p] \in LockPoints
                        /\ pc'[p] # "idle"
                        /\ a \in LockedBy(p)'
                ELSE /\ lock'[a] = NoProc
                     /\ pc[lock[a]] # "idle"
                     /\ pc'[lock[a]] = "idle"
                     /\ res'[lock[a]] # NoResponse
       /\ \A p \in Procs :
             pc'[p] = "idle" => \A a \in AccountIds : lock'[a] # p
       /\ \A p \in Procs :
             pc[p] = "idle" => \A a \in AccountIds : lock[a] # p]_vars

\* A transfer that held the lock of its source has just failed a business
\* rule on its destination, and no lock is left.
C33_Witness ==
    /\ \E p \in Procs :
          res[p] = HTTPException(400, "Destination account is not active")
    /\ \A a \in AccountIds : lock[a] = NoProc

\* The sum of the balances of the accounts of S in the table `rows`.
RECURSIVE SumBalances(_, _)
SumBalances(rows, S) ==
    IF S = {} THEN 0
    ELSE LET a == CHOOSE x \in S : TRUE
         IN  rows[a].balance + SumBalances(rows, S \ {a})

\* The committed rows of one category.
Committed(category) == {t \in transactions : t.category = category}

\* C34: a transfer leaves the sum of all account balances unchanged, and in
\* every committed state the sum of all balances equals the committed
\* deposits minus the committed withdrawals minus the committed card
\* payments.
C34_MoneyConserved ==
    [][/\ SumBalances(accounts, AccountIds)
             = SumAmounts(Committed("DEPOSIT")) - SumAmounts(Committed("WITHDRAWAL"))
               - SumAmounts(Committed("CARD_PAYMENT"))
       /\ \A p \in Procs :
             (pc[p] = "transfer_commit" /\ res'[p] = Response(201)) =>
                /\ SumBalances(accounts', AccountIds) = SumBalances(accounts, AccountIds)
                /\ accounts' # accounts
                /\ Committed("DEPOSIT")' = Committed("DEPOSIT")]_vars

\* A transfer has just moved deposited money to another account.
C34_Witness ==
    /\ \E p \in Procs : res[p] = Response(201)
    /\ \E x \in transfers :
          /\ accounts[x.destination_account_id].balance = x.amount
          /\ accounts[x.source_account_id].balance = 0
    /\ Committed("DEPOSIT") # {}
    /\ SumBalances(accounts, AccountIds) > 0

\* C35: no card payment commits after a freeze or a cancel of its card has
\* committed: the card is ACTIVE in the committed table at the moment the
\* payment commits, and no committed status change of the card falls between
\* the status check of a payment and its commit.
C35_NoPaymentAfterCardFreeze ==
    [][/\ \A p \in Procs :
             (pc[p] = "card_payment_commit" /\ res'[p] = Response(201)) =>
                cards[req[p].card_id].status = "ACTIVE"
       /\ \A p \in Procs :
             (pc[p] \in {"card_payment_lock", "card_payment_commit"}
                /\ pc'[p] \in {"card_payment_lock", "card_payment_commit"}) =>
                cards'[req[p].card_id].status = cards[req[p].card_id].status]_vars

StatusOps ==
    {"freeze_account", "unfreeze_account", "close_account",
     "create_card", "freeze_card", "unfreeze_card", "cancel_card"}

MoneyOps == {"deposit", "withdrawal", "card_payment", "transfer"}

\* C37: account freeze, unfreeze and close and card create, freeze, unfreeze
\* and cancel change no balance and add no transaction or transfer; deposit,
\* withdrawal, card payment and transfer change no account status and no
\* card status.  The first step of any request changes no table at all.
C37_FrameEffects ==
    [][\A p \in Procs :
          (Steps(p) \/ res'[p] # NoResponse) =>
             /\ pc[p] = "idle" => TablesUnchanged
             /\ req[p].op \in StatusOps =>
                   /\ \A a \in AccountIds : accounts'[a].balance = accounts[a].balance
                   /\ transactions' = transactions
                   /\ transfers' = transfers
             /\ req[p].op \in MoneyOps =>
                   /\ \A a \in AccountIds : accounts'[a].status = accounts[a].status
                   /\ DOMAIN cards' = DOMAIN cards
                   /\ \A c \in DOMAIN cards : cards'[c].status = cards[c].status]_vars

\* A status change has just been committed on a funded account whose card is
\* cancelled, while a card is being issued or money is being moved.
C37_Witness ==
    /\ \E p \in Procs : res[p] = Response(200)
    /\ accounts[1].status = "FROZEN"
    /\ accounts[1].balance > 0
    /\ cards[1].status = "CANCELLED"
    /\ \E q \in Procs : req[q].op \in {"create_card"} \cup MoneyOps

\* C38: in every committed state the back-references of a transaction match
\* its category: a TRANSFER row carries the id of a committed Transfer that
\* names it as its leg on that account (the DEBIT as source leg, the CREDIT
\* as destination leg) and no card; a CARD_PAYMENT row carries the id of a
\* card of its own account and no transfer; DEPOSIT and WITHDRAWAL rows
\* carry neither.
C38_BackReferencesMatchCategory ==
    \A t \in transactions :
        CASE t.category = "TRANSFER" ->
                /\ t.card_id = 0
                /\ \E x \in transfers :
                      /\ x.id = t.transfer_id
                      /\ IF t.type = "DEBIT"
                         THEN /\ x.source_transaction_id = t.id
                              /\ x.source_account_id = t.account_id
                         ELSE /\ x.destination_transaction_id = t.id
                              /\ x.destination_account_id = t.account_id
          [] t.category = "CARD_PAYMENT" ->
                /\ t.transfer_id = NoRef
                /\ t.card_id \in DOMAIN cards
                /\ cards[t.card_id].account_id = t.account_id
          [] OTHER ->
                /\ t.category \in {"DEPOSIT", "WITHDRAWAL"}
                /\ t.transfer_id = NoRef
                /\ t.card_id = 0

\* Both legs of a transfer are committed next to the deposit that funded it.
C38_Witness ==
    /\ \E t \in transactions : t.category = "TRANSFER" /\ t.type = "DEBIT"
    /\ \E t \in transactions : t.category = "TRANSFER" /\ t.type = "CREDIT"
    /\ \E t \in transactions : t.category = "DEPOSIT"

\* The rows a step adds on account a.
AddedRows(a) == {t \in transactions' \ transactions : t.account_id = a}

\* C39: a caller never changes the status of an account they do not own, nor
\* the status of a card on such an account, nor causes a DEBIT row on it; the
\* only effect a caller has on another user's account is the CREDIT of a
\* transfer out of an account of their own: in a step of a request, an
\* account that the caller does not own keeps its owner and status, its
\* cards keep their status and no card is added to it, no DEBIT row is added
\* on it, and if its balance changes or a row is added on it, the request is
\* a transfer from an account the caller owns, the account is its
\* destination, the balance rises by the amount and the one row added is
\* the CREDIT leg.
C39_NoEffectOnOthersAccounts ==
    [][\A p \in Procs :
          (Steps(p) \/ res'[p] # NoResponse) =>
             /\ pc[p] = "idle" => TablesUnchanged
             /\ \A a \in AccountIds :
                   accounts[a].user_id # req[p].user =>
                      /\ accounts'[a].user_id = accounts[a].user_id
                      /\ accounts'[a].status = accounts[a].status
                      /\ \A c \in DOMAIN cards' :
                            cards'[c].account_id = a =>
                               /\ c \in DOMAIN cards
                               /\ cards'[c] = cards[c]
                      /\ \A t \in AddedRows(a) : t.type # "DEBIT"
                      /\ (accounts'[a] # accounts[a] \/ AddedRows(a) # {}) =>
                            /\ req[p].op = "transfer"
                            /\ req[p].destination_account_id = a
                            /\ accounts[req[p].account_id].user_id = req[p].user
                            /\ accounts'[a].balance = accounts[a].balance + req[p].amount
                            /\ Cardinality(AddedRows(a)) = 1
                            /\ \A t \in AddedRows(a) :
                                  /\ t.type = "CREDIT"
                                  /\ t.category = "TRANSFER"
                                  /\ t.amount = req[p].amount]_vars

\* A transfer out of an account of u1 has just credited the account of u2.
C39_Witness ==
    /\ \E p \in Procs : res[p] = Response(201)
    /\ accounts[2].balance > 0
    /\ \E x \in transfers :
          /\ x.destination_account_id = 2
          /\ accounts[x.source_account_id].user_id # accounts[2].user_id
====
